---- MODULE Spec2Model ----
(***************************************************************************)
(* Model of the forge generation-and-deployment pipeline:                  *)
(*   - withAuth / withRateLimit (src/middleware/auth.ts)                   *)
(*   - the generate handlers (backend/routers/generate.ts and              *)
(*     pages/api/generate.ts) with filterThinkingTags and                  *)
(*     validateImageDataURL                                                *)
(*   - the deploy handler and createVercelDeployment                       *)
(*     (backend/routers/deploy.ts)                                         *)
(*   - the ExportDesign and CodeDisplay components of the app with         *)
(*     GeneratePage (src/components, src/pages/generate.tsx)               *)
(***************************************************************************)
EXTENDS Integers, Sequences, FiniteSets, TLC

VARIABLES
  \* ---- output sanitizer (filterThinkingTags) ----
  text,          \* raw model output handed to filterThinkingTags
  cleaned,       \* filterThinkingTags(text)
  cleanedTwice,  \* filterThinkingTags(cleaned)
  sanPc,         \* "input" | "once" | "twice"
  \* ---- withAuth around an arbitrary protected handler ----
  authReq,       \* the request withAuth was called with
  authOut,       \* what withAuth did with it
  \* ---- process environment ----
  env,           \* process.env: the configured secrets ("" = not set)
  \* ---- one request to an endpoint (generate or deploy) ----
  req,           \* the request being handled
  pc,            \* "idle" | "awaiting" (external call in flight) | "responded"
  resp,          \* the response sent for req (NoResp: none yet)
  stages,        \* the pipeline components that ran for req, in order
  extCalls,      \* external calls made for req
  sent,          \* the arguments of the external call
  outcome,       \* how the external call ended
  \* ---- withRateLimit around an arbitrary handler ----
  limit,         \* the arguments maxRequests and windowMs of withRateLimit
  requestCounts, \* the Map clientId -> {count, resetTime}
  clock,         \* Date.now()
  passed,        \* per client: requests handed to the handler in its window
  received,      \* per client: requests received since its window opened
  lastRate,      \* the latest request and what withRateLimit did with it
  rateResp,      \* the response withRateLimit itself sent for it (NoResp: none)
  \* ---- invocations of createVercelDeployment ----
  runs,          \* per invocation: its arguments, the clock, the payload built
  \* ---- the ExportDesign component (src/components/export_design.tsx) ----
  ui,            \* the state of the component instance (its useState values)
  exportRuns,    \* per run of handleExportAndGenerate: position and closure
  \* ---- GeneratePage and the CodeDisplay component ----
  pageCode,      \* generatedCode of GeneratePage, the code prop of CodeDisplay
  display,       \* the mounted CodeDisplay instance and its deployState
  deploys        \* per run of handleDeployAndPreview: position and closure

sanVars == <<text, cleaned, cleanedTwice, sanPc>>

authVars == <<authReq, authOut>>

apiVars == <<req, pc, resp, stages, extCalls, sent, outcome>>

rateVars == <<limit, requestCounts, clock, passed, received, lastRate, rateResp>>

scafVars == <<runs>>

exportVars == <<ui, exportRuns>>

displayVars == <<pageCode, display, deploys>>

appVars == <<exportVars, displayVars>>

vars == <<sanVars, authVars, env, apiVars, rateVars, scafVars, appVars>>

(***************************************************************************)
(* Bounds                                                                  *)
(***************************************************************************)
MaxTextLen == 4

\* latest clock reading (seconds) and latest expiry a token carries
MaxNow == 2

\* latest reading of the rate limiter's clock, in units of the model
MaxClock == 2

\* largest non-default maxRequests withRateLimit is configured with
MaxRequestsTried == 2

\* requests counted for one client beyond maxRequests
MaxOverLimit == 1

\* invocations of createVercelDeployment that are compared
MaxRuns == 2

(***************************************************************************)
(* Strings handled by the sanitizer.  A text is a sequence of lexemes;     *)
(* each lexeme stands for the characters on the right:                     *)
(*   "O"  <thinking>     "C"  </thinking>     "F"  ```                     *)
(*   "n"  line feed       "s"  a blank          "x"  a letter              *)
(* No regular expression of filterThinkingTags can match a proper part of  *)
(* one of these lexemes, so the expressions are evaluated lexeme-wise.     *)
(***************************************************************************)
Lexemes == {"O", "C", "F", "n", "s", "x"}

Whitespace == {"s", "n"}

Letters == {"x"}

\* every character "." matches: anything except a line terminator
NotLineTerminator == Lexemes \ {"n"}

\* longer completions: a fenced block around one line of code, a thinking
\* span in front of the code, and a fenced block around a line that starts
\* with backticks
SampleTexts ==
  {<<"F", "x", "n", "x", "n", "F">>, <<"O", "x", "s", "x", "C", "x">>,
   <<"F", "n", "F", "x", "F", "n", "F">>}

Texts == UNION {[1..k -> Lexemes] : k \in 0..MaxTextLen} \cup SampleTexts

\* s.indexOf(t, from): first position >= from holding t, 0 when there is none
IndexOf(s, t, from) ==
  IF \E i \in from..Len(s) : s[i] = t
  THEN CHOOSE i \in from..Len(s) : s[i] = t /\ \A j \in from..(i - 1) : s[j] # t
  ELSE 0

\* position reached by a greedy run of lexemes of class cls that starts at p
SkipWhile(s, p, cls) ==
  CHOOSE q \in p..(Len(s) + 1) :
    /\ \A k \in p..(q - 1) : s[k] \in cls
    /\ (q = Len(s) + 1 \/ s[q] \notin cls)

\* "^" under the m flag: start of the text or just after a line feed
AtLineStart(s, p) == p = 1 \/ s[p - 1] = "n"

\* /<thinking[^>]*>[\s\S]*?<\/thinking>/gi replaced by '': every span from
\* an opening tag to the first closing tag after it, leftmost first
RECURSIVE thinkingRegex(_)
thinkingRegex(s) ==
  LET i == IndexOf(s, "O", 1)
      j == IF i = 0 THEN 0 ELSE IndexOf(s, "C", i + 1)
  IN  IF i = 0 \/ j = 0
      THEN s
      ELSE SubSeq(s, 1, i - 1) \o thinkingRegex(SubSeq(s, j + 1, Len(s)))

\* /^[\s\S]*?<\/thinking>/gi replaced by '': "^" without the m flag matches
\* at the start of the text only, so one prefix is removed, up to the first
\* closing tag
openThinkingRegex(s) ==
  LET j == IndexOf(s, "C", 1)
  IN  IF j = 0 THEN s ELSE SubSeq(s, j + 1, Len(s))

\* /<thinking[^>]*>/gi replaced by ''
remainingOpenRegex(s) == SelectSeq(s, LAMBDA t : t # "O")

\* "\s*$" under the m flag, tried at p: the position after the match, or 0.
\* The greedy run of whitespace gives back characters until "$" holds, i.e.
\* until the end of the text or the last line feed of the run.
TrailingSpaceToLineEnd(s, p) ==
  LET q == SkipWhile(s, p, Whitespace)
  IN  IF q = Len(s) + 1 THEN q
      ELSE IF \E k \in p..(q - 1) : s[k] = "n"
           THEN CHOOSE k \in p..(q - 1) :
                  s[k] = "n" /\ \A m \in (k + 1)..(q - 1) : s[m] # "n"
           ELSE 0

\* the position after a match of the fence expression `kind` tried at p, or 0
FenceMatchEnd(kind, s, p) ==
  LET q == SkipWhile(s, p, Whitespace)
  IN  IF q > Len(s) \/ (q <= Len(s) /\ s[q] # "F") THEN 0
      ELSE CASE kind = "openCodeBlock" ->
                  TrailingSpaceToLineEnd(s, SkipWhile(s, q + 1, Letters))
             [] kind = "closeCodeBlock" ->
                  TrailingSpaceToLineEnd(s, q + 1)
             [] kind = "standaloneBackticks" ->
                  SkipWhile(s, q + 1, NotLineTerminator)

\* s.replace(re, '') for a fence expression with the g and m flags
RECURSIVE ReplaceFence(_, _, _)
ReplaceFence(kind, s, p) ==
  IF p > Len(s) THEN <<>>
  ELSE LET e == IF AtLineStart(s, p) THEN FenceMatchEnd(kind, s, p) ELSE 0
       IN  IF e # 0
           THEN ReplaceFence(kind, s, e)
           ELSE <<s[p]>> \o ReplaceFence(kind, s, p + 1)

\* /^\s*```[a-zA-Z]*\s*$/gm replaced by ''
openCodeBlockRegex(s) == ReplaceFence("openCodeBlock", s, 1)

\* /^\s*```\s*$/gm replaced by ''
closeCodeBlockRegex(s) == ReplaceFence("closeCodeBlock", s, 1)

\* /^\s*`{3,}.*$/gm replaced by ''
standaloneBackticksRegex(s) == ReplaceFence("standaloneBackticks", s, 1)

\* String.prototype.trim
trim(s) ==
  LET a == SkipWhile(s, 1, Whitespace)
  IN  IF a = Len(s) + 1 THEN <<>>
      ELSE LET b == CHOOSE k \in a..Len(s) :
                      s[k] \notin Whitespace
                      /\ \A m \in (k + 1)..Len(s) : s[m] \in Whitespace
           IN  SubSeq(s, a, b)

filterThinkingTags(t) ==
  trim(standaloneBackticksRegex(closeCodeBlockRegex(openCodeBlockRegex(
    remainingOpenRegex(openThinkingRegex(thinkingRegex(t)))))))

(***************************************************************************)
(* The sanitizer applied to a raw text, and applied again to its output.   *)
(***************************************************************************)
InitSan ==
  /\ text \in Texts
  /\ cleaned = <<>>
  /\ cleanedTwice = <<>>
  /\ sanPc = "input"

Sanitize ==
  /\ sanPc = "input"
  /\ cleaned' = filterThinkingTags(text)
  /\ sanPc' = "once"
  /\ UNCHANGED <<text, cleanedTwice>>

SanitizeAgain ==
  /\ sanPc = "once"
  /\ cleanedTwice' = filterThinkingTags(cleaned)
  /\ sanPc' = "twice"
  /\ UNCHANGED <<text, cleaned>>

NextSan == Sanitize \/ SanitizeAgain

(***************************************************************************)
(* Optional values: a response field or a claim that may be absent.        *)
(***************************************************************************)
NoStr == [has |-> FALSE, v |-> ""]

NoNum == [has |-> FALSE, v |-> 0]

NoText == [has |-> FALSE, v |-> <<>>]

Some(x) == [has |-> TRUE, v |-> x]

\* truthiness of an optional string / number (absent, '' and 0 are falsy)
TruthyStr(o) == o.has /\ o.v # ""

TruthyNum(o) == o.has /\ o.v # 0

(***************************************************************************)
(* Responses: res.status(n).json({success, error, code, deploymentUrl,     *)
(* userId}).  NoResp: nothing was sent.                                    *)
(***************************************************************************)
NoResp ==
  [status |-> 0, success |-> FALSE, error |-> NoStr, code |-> NoText,
   deploymentUrl |-> NoStr, userId |-> NoStr]

\* an error response without a message
ErrorRespBare(st, msg) ==
  [status |-> st, success |-> FALSE, error |-> NoStr, code |-> NoText,
   deploymentUrl |-> NoStr, userId |-> NoStr]

ErrorResp(st, msg) ==
  [status |-> st, success |-> FALSE, error |-> Some(msg), code |-> NoText,
   deploymentUrl |-> NoStr, userId |-> NoStr]

(***************************************************************************)
(* withAuth (src/middleware/auth.ts)                                       *)
(***************************************************************************)
TrustedIssuer == "canva.com"

Secrets == {"s1", "s2"}

\* a bearer token: its shape, the key that signed it and its payload
Payloads ==
  [sub : {NoStr, Some(""), Some("user-0123456789")},
   aud : {NoStr, Some("client")},
   iss : {NoStr, Some("canva.com"), Some("evil.com")},
   exp : {NoNum} \cup {Some(t) : t \in 1..MaxNow}]

JwtTokens ==
  [wellFormed : BOOLEAN, signedWith : Secrets \cup {"forged"}, payload : Payloads]

AuthHeaders ==
  {[present |-> FALSE, scheme |-> "", token |-> tk] :
     tk \in {t \in JwtTokens : ~t.wellFormed /\ t.signedWith = "forged"
                               /\ t.payload = [sub |-> NoStr, aud |-> NoStr,
                                               iss |-> NoStr, exp |-> NoNum]}}
  \cup [present : {TRUE}, scheme : {"Basic ", "Bearer "}, token : JwtTokens]

\* a verification that rejects a token without an expiry claim
jwtVerifyExpRequired(token, secret, now) ==
  IF ~token.wellFormed \/ token.signedWith # secret
  THEN [ok |-> FALSE, classes |-> {"JsonWebTokenError", "Error"},
        decoded |-> token.payload]
  ELSE IF ~token.payload.exp.has \/ now >= token.payload.exp.v
  THEN [ok |-> FALSE,
        classes |-> {"TokenExpiredError", "JsonWebTokenError", "Error"},
        decoded |-> token.payload]
  ELSE [ok |-> TRUE, classes |-> {}, decoded |-> token.payload]

\* jwt.decode in place of jwt.verify: the payload is read, nothing is checked
jwtDecode(token, secret, now) ==
  [ok |-> token.wellFormed, classes |-> {"JsonWebTokenError", "Error"},
   decoded |-> token.payload]

\* jwt.verify(token, secret) with the default options: the decoded payload,
\* or the error thrown.  An error is the set of classes it is an instance of
\* (TokenExpiredError extends JsonWebTokenError).
jwtVerify(token, secret, now) ==
  IF ~token.wellFormed \/ token.signedWith # secret
  THEN [ok |-> FALSE, classes |-> {"JsonWebTokenError", "Error"},
        decoded |-> token.payload]
  ELSE IF token.payload.exp.has /\ now >= token.payload.exp.v
  THEN [ok |-> FALSE,
        classes |-> {"TokenExpiredError", "JsonWebTokenError", "Error"},
        decoded |-> token.payload]
  ELSE [ok |-> TRUE, classes |-> {}, decoded |-> token.payload]

NoUser == [sub |-> NoStr, aud |-> NoStr, iss |-> NoStr, exp |-> NoNum]

AuthResult(response, invoked, user, checks) ==
  [resp |-> response, invoked |-> invoked, user |-> user, checks |-> checks]

\* a catch block that answers every error alike
withAuthCatchGeneric(classes, checks) ==
  AuthResult(ErrorResp(500, "Authentication failed"), FALSE, NoUser, checks)

\* the catch block of withAuth, for an error thrown by jwt.verify
withAuthCatch(classes, checks) ==
  IF "JsonWebTokenError" \in classes
  THEN AuthResult(ErrorResp(401, "Invalid JWT token"), FALSE, NoUser, checks)
  ELSE IF "TokenExpiredError" \in classes
  THEN AuthResult(ErrorResp(401, "JWT token has expired"), FALSE, NoUser, checks)
  ELSE AuthResult(ErrorResp(500, "Authentication failed"), FALSE, NoUser, checks)

\* a middleware that verifies the token before it looks at the secret
withAuthSecretLast(r, secret) ==
  IF ~r.header.present \/ r.header.scheme # "Bearer "
  THEN AuthResult(
         ErrorResp(401, "Missing or invalid authorization header. Expected: Bearer <token>"),
         FALSE, NoUser, <<"header">>)
  ELSE IF ~jwtVerify(r.header.token, secret, r.now).ok
  THEN withAuthCatch(jwtVerify(r.header.token, secret, r.now).classes,
                     <<"header", "verify">>)
  ELSE IF secret = ""
  THEN AuthResult(ErrorResp(500, "Server configuration error"),
                  FALSE, NoUser, <<"header", "verify", "secret">>)
  ELSE AuthResult(NoResp, TRUE, r.header.token.payload,
                  <<"header", "verify", "secret">>)

\* withAuth(handler)(req, res) up to the call of the handler.  r.header is
\* req.headers.authorization, secret is process.env.CANVA_JWT_SECRET, r.now
\* is Math.floor(Date.now() / 1000).  checks lists the checks evaluated, in
\* the order of evaluation; invoked: the handler was called with req.user =
\* user.
withAuth(r, secret) ==
  IF ~r.header.present \/ r.header.scheme # "Bearer "
  THEN AuthResult(
         ErrorResp(401, "Missing or invalid authorization header. Expected: Bearer <token>"),
         FALSE, NoUser, <<"header">>)
  ELSE IF secret = ""
  THEN AuthResult(ErrorResp(500, "Server configuration error"),
                  FALSE, NoUser, <<"header", "secret">>)
  ELSE LET verified == jwtVerify(r.header.token, secret, r.now)
           decoded == verified.decoded
       IN  IF ~verified.ok
           THEN withAuthCatch(verified.classes, <<"header", "secret", "verify">>)
           ELSE IF ~TruthyStr(decoded.sub) \/ ~TruthyStr(decoded.aud)
                   \/ ~TruthyStr(decoded.iss)
           THEN AuthResult(ErrorResp(401, "Invalid JWT: missing required claims"),
                  FALSE, NoUser, <<"header", "secret", "verify", "claims">>)
           ELSE IF decoded.iss.v # TrustedIssuer
           THEN AuthResult(ErrorResp(401, "Invalid JWT: invalid issuer"),
                  FALSE, NoUser,
                  <<"header", "secret", "verify", "claims", "issuer">>)
           ELSE IF TruthyNum(decoded.exp) /\ decoded.exp.v < r.now
           THEN AuthResult(ErrorResp(401, "JWT token has expired"),
                  FALSE, NoUser,
                  <<"header", "secret", "verify", "claims", "issuer", "expiry">>)
           ELSE AuthResult(NoResp, TRUE, decoded,
                  <<"header", "secret", "verify", "claims", "issuer", "expiry">>)

AuthRequests == [header : AuthHeaders, now : 0..MaxNow]

NoAuthReq ==
  [header |-> [present |-> FALSE, scheme |-> "",
               token |-> [wellFormed |-> FALSE, signedWith |-> "forged",
                          payload |-> NoUser]],
   now |-> 0]

NoAuthOut == AuthResult(NoResp, FALSE, NoUser, <<>>)

\* one request through withAuth
WithAuthRequest ==
  \E r \in AuthRequests :
    /\ authOut = NoAuthOut
    /\ authReq' = r
    /\ authOut' = withAuth(r, env.CANVA_JWT_SECRET)
    /\ UNCHANGED env


(***************************************************************************)
(* JSON values of a request body field.  k is the kind of value, truthy    *)
(* its JavaScript truthiness, v the characters of a string value.          *)
(***************************************************************************)
JsValue(k, truthy, v) == [k |-> k, truthy |-> truthy, v |-> v]

\* typeof x
typeof(x) ==
  IF x.k \in {"null", "array", "object"} THEN "object" ELSE x.k

\* the values every body field is tried with that are not strings
NonStrings(empty) ==
  {JsValue("undefined", FALSE, empty), JsValue("null", FALSE, empty),
   JsValue("number", FALSE, empty), JsValue("object", TRUE, empty)}

Str(v) == JsValue("string", v # "", v)

(***************************************************************************)
(* Image data URLs.  The string is a sequence of pieces:                   *)
(*   "P"  the prefix data:image/png;     "M"  the marker base64,           *)
(*   "D"  a run of n payload characters that contains no marker            *)
(***************************************************************************)
\* const maxSize = 10 * 1024 * 1024
maxSize == 10 * 1024 * 1024

\* the longest payload whose estimate (length * 3) / 4 is within maxSize
CapLen == (maxSize * 4) \div 3

Piece(k, n) == [k |-> k, len |-> n]

UrlPieces ==
  {Piece("P", 15), Piece("M", 7), Piece("D", CapLen), Piece("D", CapLen + 1)}

MaxPieces == 4

UrlStrings == UNION {[1..k -> UrlPieces] : k \in 0..MaxPieces}

RECURSIVE PiecesLength(_)
PiecesLength(u) ==
  IF u = <<>> THEN 0 ELSE Head(u).len + PiecesLength(Tail(u))

\* index of the first marker at or after position from, 0 when there is none
MarkerIndex(u, from) ==
  IF \E i \in from..Len(u) : u[i].k = "M"
  THEN CHOOSE i \in from..Len(u) :
         u[i].k = "M" /\ \A j \in from..(i - 1) : u[j].k # "M"
  ELSE 0

\* imageDataURL.split('base64,')[1]: the characters between the first marker
\* and the second one (or the end of the string)
SplitSecond(u) ==
  LET i == MarkerIndex(u, 1)
      j == MarkerIndex(u, i + 1)
  IN  SubSeq(u, i + 1, IF j = 0 THEN Len(u) ELSE j - 1)

\* validateImageDataURL(imageDataURL).isValid and .error
validateImageDataURL(u) ==
  IF u = <<>> \/ (u # <<>> /\ u[1].k # "P")
  THEN [isValid |-> FALSE,
        error |-> "Invalid image format. Must be a data URL starting with \"data:image/\""]
  ELSE IF MarkerIndex(u, 1) = 0
  THEN [isValid |-> FALSE, error |-> "Invalid image format. Must be base64 encoded"]
  ELSE IF PiecesLength(SplitSecond(u)) * 3 > maxSize * 4
  THEN [isValid |-> FALSE, error |-> "Image too large. Maximum size is 10MB"]
  ELSE [isValid |-> TRUE, error |-> ""]

ImageStr(u) == JsValue("string", u # <<>>, u)

ImageValues == NonStrings(<<>>) \cup {ImageStr(u) : u \in UrlStrings}

PromptValues == NonStrings("") \cup {Str(""), Str("make it blue")}

\* req.body: a JSON object with its fields, or something that is no object
GenerateBodies ==
  [isObject : {TRUE}, imageDataURL : ImageValues, prompt : PromptValues]
  \cup {[isObject |-> FALSE, imageDataURL |-> JsValue("undefined", FALSE, <<>>),
          prompt |-> JsValue("undefined", FALSE, "")]}

(***************************************************************************)
(* The external generation call: generateText of the AI SDK.               *)
(***************************************************************************)
\* the substrings the handlers look for in the message of a failure
SignalWords == {"rate limit", "quota", "unauthorized", "authentication"}

\* a failure of an external call: what the upstream signalled (kind) and the
\* signal words its message contains
Failures ==
  [kind : {"quota", "auth", "other"},
   words : {{}, {"quota", "unauthorized"}} \cup {{w} : w \in SignalWords}]

\* raw completions the generation service answers with
RawOutputs ==
  {<<"O", "x", "C", "x", "s", "x">>, <<"x">>, <<"F", "x", "n", "x", "n", "F">>,
   <<"C", "x", "C", "x">>, <<>>}

\* error.message of a failure, as far as the handlers look at it: the signal
\* words it contains
message(failure) ==
  IF failure.words = {} THEN "socket hang up"
  ELSE IF Cardinality(failure.words) = 1 THEN CHOOSE w \in failure.words : TRUE
  ELSE "quota unauthorized"

\* error.message.includes(w), for the message of a wrapped failure
\* `Failed to generate code: ${message}` / `Failed to create deployment: ...`
includes(failure, w) == w \in failure.words

\* the catch block of a handler
handlerCatch(failure, generic) ==
  IF includes(failure, "rate limit") \/ includes(failure, "quota")
  THEN ErrorResp(429, "API rate limit exceeded. Please try again later.")
  ELSE IF includes(failure, "unauthorized") \/ includes(failure, "authentication")
  THEN ErrorResp(401, "API authentication failed. Please check your credentials.")
  ELSE ErrorResp(500, generic)

\* defaultPrompt of each generate handler
defaultPrompt(endpoint) ==
  IF endpoint = "router" THEN "<task>...</task> (backend/routers/generate.ts)"
  ELSE "Analyze this design image ... (pages/api/generate.ts)"

\* a composition that puts the caller's instructions after the base ones
composePromptAppended(endpoint, userPrompt) ==
  IF userPrompt.truthy
  THEN defaultPrompt(endpoint) \o "\n\n" \o userPrompt.v
  ELSE defaultPrompt(endpoint)

\* const prompt = userPrompt ? `${userPrompt}\n\n${defaultPrompt}` : defaultPrompt
composePrompt(endpoint, userPrompt) ==
  IF userPrompt.truthy
  THEN userPrompt.v \o "\n\n" \o defaultPrompt(endpoint)
  ELSE defaultPrompt(endpoint)

\* what a handler does before it awaits: it answers (resp) or starts the
\* external call (call = TRUE); extCalls counts the external calls it made
Answer(response) == [call |-> FALSE, resp |-> response, extCalls |-> 0]

StartCall == [call |-> TRUE, resp |-> NoResp, extCalls |-> 1]

\* a generate handler whose validation messages quote the API key
generateHandlerEchoesKey(body, apiKey) ==
  IF ~body.isObject
  THEN Answer(ErrorResp(400, "Invalid request body. Expected JSON object."))
  ELSE IF ~body.imageDataURL.truthy \/ typeof(body.imageDataURL) # "string"
  THEN Answer(ErrorResp(400, "Missing or invalid imageDataURL for " \o apiKey))
  ELSE IF body.prompt.truthy /\ typeof(body.prompt) # "string"
  THEN Answer(ErrorResp(400, "Invalid prompt. Must be a string."))
  ELSE IF ~validateImageDataURL(body.imageDataURL.v).isValid
  THEN Answer(ErrorResp(400, validateImageDataURL(body.imageDataURL.v).error))
  ELSE IF apiKey = ""
  THEN Answer(ErrorResp(500, "Server configuration error: Missing API key"))
  ELSE StartCall

\* a generate handler that validates the image only after it has called the
\* generation service
generateHandlerValidatesLate(body, apiKey) ==
  IF ~body.isObject
  THEN Answer(ErrorResp(400, "Invalid request body. Expected JSON object."))
  ELSE IF ~body.imageDataURL.truthy \/ typeof(body.imageDataURL) # "string"
  THEN Answer(ErrorResp(400,
         "Missing or invalid imageDataURL. Must be a base64 data URL string."))
  ELSE IF body.prompt.truthy /\ typeof(body.prompt) # "string"
  THEN Answer(ErrorResp(400, "Invalid prompt. Must be a string."))
  ELSE IF apiKey = ""
  THEN Answer(ErrorResp(500, "Server configuration error: Missing API key"))
  ELSE IF ~validateImageDataURL(body.imageDataURL.v).isValid
  THEN [call |-> FALSE, extCalls |-> 1,
        resp |-> ErrorResp(400, validateImageDataURL(body.imageDataURL.v).error)]
  ELSE StartCall

\* the generate handler of either endpoint up to the await of
\* generateCodeFromImageDataURL; apiKey is the environment variable it checks
generateHandler(body, apiKey) ==
  IF ~body.isObject
  THEN Answer(ErrorResp(400, "Invalid request body. Expected JSON object."))
  ELSE IF ~body.imageDataURL.truthy \/ typeof(body.imageDataURL) # "string"
  THEN Answer(ErrorResp(400,
         "Missing or invalid imageDataURL. Must be a base64 data URL string."))
  ELSE IF body.prompt.truthy /\ typeof(body.prompt) # "string"
  THEN Answer(ErrorResp(400, "Invalid prompt. Must be a string."))
  ELSE IF ~validateImageDataURL(body.imageDataURL.v).isValid
  THEN Answer(ErrorResp(400, validateImageDataURL(body.imageDataURL.v).error))
  ELSE IF apiKey = ""
  THEN Answer(ErrorResp(500, "Server configuration error: Missing API key"))
  ELSE StartCall

\* what generateCodeFromImageDataURL returns for the completion result.text
generatedCode(endpoint, raw) ==
  IF endpoint = "router" THEN filterThinkingTags(raw) ELSE raw

(***************************************************************************)
(* createVercelDeployment (backend/routers/deploy.ts): the file set.       *)
(* A file is [file |-> path, data |-> content]; the content of a template  *)
(* is written as its name followed by the values substituted into it.      *)
(***************************************************************************)
File(path, data) == [file |-> path, data |-> data]

\* the UI primitives written by addCommonShadcnComponents
UiPrimitives == {"button", "card", "input", "label", "badge", "progress", "slider"}

\* primitives that copy the manifest into lib/utils.ts
addCommonShadcnComponentsNamed(files) ==
  files \o
  << File("lib/utils.ts", files[1].data),
     File("components/ui/button.tsx", "ui/button"),
     File("components/ui/card.tsx", "ui/card"),
     File("components/ui/input.tsx", "ui/input"),
     File("components/ui/label.tsx", "ui/label"),
     File("components/ui/badge.tsx", "ui/badge"),
     File("components/ui/progress.tsx", "ui/progress"),
     File("components/ui/slider.tsx", "ui/slider") >>

\* the files appended by addCommonShadcnComponents(files)
addCommonShadcnComponents(files) ==
  files \o
  << File("lib/utils.ts", "lib/utils.ts"),
     File("components/ui/button.tsx", "ui/button"),
     File("components/ui/card.tsx", "ui/card"),
     File("components/ui/input.tsx", "ui/input"),
     File("components/ui/label.tsx", "ui/label"),
     File("components/ui/badge.tsx", "ui/badge"),
     File("components/ui/progress.tsx", "ui/progress"),
     File("components/ui/slider.tsx", "ui/slider") >>

\* a file set whose component file carries the code behind a directive
deploymentFilesWrapped(code, componentName, projectName, framework) ==
  IF framework = "next"
  THEN addCommonShadcnComponents(
         << File("package.json", "next package.json name=" \o projectName),
            File("tsconfig.json", "tsconfig.json"),
            File("next.config.js", "next.config.js"),
            File("app/layout.tsx", "app/layout.tsx title=" \o componentName),
            File("app/page.tsx",
                 "import " \o componentName \o " from '@/components/"
                   \o componentName \o "' <" \o componentName \o " />"),
            File("app/globals.css", "app/globals.css"),
            File("tailwind.config.js", "tailwind.config.js"),
            File("postcss.config.js", "postcss.config.js") >>)
       \o << File("components/" \o componentName \o ".tsx",
                  "'use client' " \o code) >>
  ELSE << File("package.json", "react package.json name=" \o projectName),
          File("src/components/" \o componentName \o ".tsx",
               "'use client' " \o code),
          File("src/App.tsx",
               "import " \o componentName \o " from './components/"
                 \o componentName \o "' <" \o componentName \o " />"),
          File("src/index.css", "src/index.css"),
          File("src/index.tsx", "src/index.tsx") >>

\* const files of createVercelDeployment(code, componentName, projectName,
\* framework)
deploymentFiles(code, componentName, projectName, framework) ==
  IF framework = "next"
  THEN addCommonShadcnComponents(
         << File("package.json", "next package.json name=" \o projectName),
            File("tsconfig.json", "tsconfig.json"),
            File("next.config.js", "next.config.js"),
            File("app/layout.tsx", "app/layout.tsx title=" \o componentName),
            File("app/page.tsx",
                 "import " \o componentName \o " from '@/components/"
                   \o componentName \o "' <" \o componentName \o " />"),
            File("app/globals.css", "app/globals.css"),
            File("tailwind.config.js", "tailwind.config.js"),
            File("postcss.config.js", "postcss.config.js") >>)
       \o << File("components/" \o componentName \o ".tsx", code) >>
  ELSE << File("package.json", "react package.json name=" \o projectName),
          File("src/components/" \o componentName \o ".tsx", code),
          File("src/App.tsx",
               "import " \o componentName \o " from './components/"
                 \o componentName \o "' <" \o componentName \o " />"),
          File("src/index.css", "src/index.css"),
          File("src/index.tsx", "src/index.tsx") >>

\* payload.projectSettings
projectSettings(framework) ==
  IF framework = "next"
  THEN [framework |-> "nextjs", devCommand |-> "next dev",
        buildCommand |-> "next build", outputDirectory |-> ".next"]
  ELSE [framework |-> "create-react-app", devCommand |-> "react-scripts start",
        buildCommand |-> "react-scripts build", outputDirectory |-> "build"]

\* a payload whose name carries the time of the invocation
deploymentPayloadStamped(code, componentName, projectName, framework) ==
  [name |-> projectName \o "-" \o ToString(clock),
   files |-> deploymentFiles(code, componentName, projectName, framework),
   projectSettings |-> projectSettings(framework)]

\* the body posted to https://api.vercel.com/v13/deployments
deploymentPayload(code, componentName, projectName, framework) ==
  [name |-> projectName,
   files |-> deploymentFiles(code, componentName, projectName, framework),
   projectSettings |-> projectSettings(framework)]

\* the arguments createVercelDeployment is invoked with
ScaffoldArgs ==
  [code : {"export default function C(){return null}",
           "export default function D(){return 1}"},
   componentName : {"Hero", "ui/button"},
   projectName : {"my-project", "forge-preview-user-012-0"},
   framework : {"next", "react"}]

NoPayload ==
  [name |-> "", files |-> <<>>,
   projectSettings |-> [framework |-> "", devCommand |-> "",
                        buildCommand |-> "", outputDirectory |-> ""]]

\* one invocation of createVercelDeployment up to the fetch: it throws when
\* VERCEL_ACCESS_TOKEN is not set, else it builds the payload
CreateVercelDeployment ==
  \E a \in ScaffoldArgs :
    /\ Len(runs) < MaxRuns
    /\ runs' = Append(runs,
         [args |-> a, at |-> clock,
          threw |-> env.VERCEL_ACCESS_TOKEN = "",
          payload |-> IF env.VERCEL_ACCESS_TOKEN = "" THEN NoPayload
                      ELSE deploymentPayload(a.code, a.componentName,
                                             a.projectName, a.framework)])
    /\ UNCHANGED env

(***************************************************************************)
(* The deploy handler (backend/routers/deploy.ts)                          *)
(***************************************************************************)
\* the documented cap on the code of a deploy request (2MB)
maxCodeSize == 2 * 1024 * 1024

\* stands for a source text of maxCodeSize + 1 characters
OversizedCode == "/* maxCodeSize + 1 characters */"

\* code.length
CodeLength(code) == IF code = OversizedCode THEN maxCodeSize + 1 ELSE Len(code)

CodeValues ==
  NonStrings("")
  \cup {Str(""), Str("export default function C(){return null}"),
        Str(OversizedCode)}

ComponentNameValues ==
  NonStrings("") \cup {Str(""), Str("Hero"), Str("ui/button"), Str("ui/slider")}

ProjectNameValues == NonStrings("") \cup {Str(""), Str("my-project")}

FrameworkValues ==
  NonStrings("") \cup {Str(""), Str("next"), Str("react"), Str("vue")}

DeployBodies ==
  [isObject : {TRUE}, code : CodeValues, componentName : ComponentNameValues,
   projectName : ProjectNameValues, framework : FrameworkValues]
  \cup {[isObject |-> FALSE, code |-> JsValue("undefined", FALSE, ""),
          componentName |-> JsValue("undefined", FALSE, ""),
          projectName |-> JsValue("undefined", FALSE, ""),
          framework |-> JsValue("undefined", FALSE, "")]}

\* n.toString(36) for the clock readings of the model
Base36(n) ==
  <<"0", "1", "2", "3", "4", "5", "6", "7", "8", "9", "a", "b",
    "c", "d", "e", "f", "g", "h", "i", "j", "k", "l", "m", "n",
    "o", "p", "q", "r", "s", "t", "u", "v", "w", "x", "y", "z">>[n + 1]

\* s.substring(0, n)
Substring0(str, n) == SubSeq(str, 1, IF Len(str) < n THEN Len(str) ELSE n)

\* ['next', 'react'].includes(framework)
SupportedFramework(x) == x.k = "string" /\ x.v \in {"next", "react"}

\* a deploy handler that leaves the token check to createVercelDeployment
deployHandlerTokenUnchecked(body, token) ==
  IF ~body.isObject
  THEN Answer(ErrorResp(400, "Invalid request body. Expected JSON object."))
  ELSE IF ~body.code.truthy \/ typeof(body.code) # "string"
  THEN Answer(ErrorResp(400, "Missing or invalid code. Must be a string."))
  ELSE IF body.componentName.truthy /\ typeof(body.componentName) # "string"
  THEN Answer(ErrorResp(400, "Invalid componentName. Must be a string."))
  ELSE IF body.projectName.truthy /\ typeof(body.projectName) # "string"
  THEN Answer(ErrorResp(400, "Invalid projectName. Must be a string."))
  ELSE IF body.framework.truthy /\ ~SupportedFramework(body.framework)
  THEN Answer(ErrorResp(400, "Invalid framework. Must be \"next\" or \"react\"."))
  ELSE StartCall

\* the deploy handler up to the await of createVercelDeployment
deployHandler(body, token) ==
  IF ~body.isObject
  THEN Answer(ErrorResp(400, "Invalid request body. Expected JSON object."))
  ELSE IF ~body.code.truthy \/ typeof(body.code) # "string"
  THEN Answer(ErrorResp(400, "Missing or invalid code. Must be a string."))
  ELSE IF body.componentName.truthy /\ typeof(body.componentName) # "string"
  THEN Answer(ErrorResp(400, "Invalid componentName. Must be a string."))
  ELSE IF body.projectName.truthy /\ typeof(body.projectName) # "string"
  THEN Answer(ErrorResp(400, "Invalid projectName. Must be a string."))
  ELSE IF body.framework.truthy /\ ~SupportedFramework(body.framework)
  THEN Answer(ErrorResp(400, "Invalid framework. Must be \"next\" or \"react\"."))
  ELSE IF token = ""
  THEN Answer(ErrorResp(500, "Server configuration error: Missing deployment token"))
  ELSE StartCall

\* componentName || 'GeneratedComponent'
formattedComponentName(body) ==
  IF body.componentName.truthy THEN body.componentName.v ELSE "GeneratedComponent"

\* a generated project name without the time-based suffix
formattedProjectNameUntimed(body, userId, now) ==
  IF body.projectName.truthy THEN body.projectName.v
  ELSE "forge-preview-" \o Substring0(userId, 8)

\* projectName || `forge-preview-${userId.substring(0, 8)}-${Date.now().toString(36)}`
formattedProjectName(body, userId, now) ==
  IF body.projectName.truthy THEN body.projectName.v
  ELSE "forge-preview-" \o Substring0(userId, 8) \o "-" \o Base36(now)

\* framework || 'next'
formattedFramework(body) ==
  IF body.framework.truthy THEN body.framework.v ELSE "next"

(***************************************************************************)
(* Specification Spec: a request to one of the three endpoints.  The       *)
(* handlers share no state, so one request is followed from its arrival to *)
(* its response.                                                           *)
(*   "router"  POST /api/generate of backend/routers/generate.ts           *)
(*   "pages"   pages/api/generate.ts, exported as withAuth(handler)        *)
(*   "deploy"  POST /api/deploy of backend/routers/deploy.ts               *)
(***************************************************************************)
UserIds == {"user-0123456789"}

DeploymentUrls == {"my-project.vercel.app"}

Unset(name) ==
  [n \in {"CANVA_JWT_SECRET", "V0_API_KEY", "VERCEL_API_KEY", "VERCEL_ACCESS_TOKEN"}
     |-> IF n = name THEN "" ELSE IF n = "CANVA_JWT_SECRET" THEN "s1" ELSE "key"]

\* the environments: everything configured, or one variable missing
Environments ==
  {Unset(n) : n \in {"", "CANVA_JWT_SECRET", "V0_API_KEY", "VERCEL_API_KEY",
                     "VERCEL_ACCESS_TOKEN"}}

\* the credentials requests to the pages endpoint come with
ValidPayload ==
  [sub |-> Some("user-0123456789"), aud |-> Some("client"),
   iss |-> Some("canva.com"), exp |-> Some(MaxNow)]

PagesAuthRequests ==
  {NoAuthReq}
  \cup {[header |-> [present |-> TRUE, scheme |-> "Bearer ",
                     token |-> [wellFormed |-> TRUE, signedWith |-> k,
                                payload |-> ValidPayload]],
         now |-> 1] : k \in {"s1", "forged"}}

NoCall == [kind |-> "none"]

NoReq == [endpoint |-> "none"]

NoOutcome == [kind |-> "none"]

SuccessResp(code, url, userId) ==
  [status |-> 200, success |-> TRUE, error |-> NoStr, code |-> code,
   deploymentUrl |-> url, userId |-> Some(userId)]

\* the limit of the JSON body parser in front of each endpoint:
\* express.json({ limit: '15mb' }) for the router, and
\* config.api.bodyParser.sizeLimit = '10mb' for pages/api/generate.ts
bodySizeLimit(endpoint) ==
  IF endpoint = "pages" THEN 10 * 1024 * 1024 ELSE 15 * 1024 * 1024

\* the length of the body of a generate request, counted by its
\* imageDataURL string (the other fields only add to it)
generateBodyLength(body) ==
  IF body.imageDataURL.k = "string" THEN PiecesLength(body.imageDataURL.v) ELSE 0

\* the length of the body of a deploy request, counted by its code string
deployBodyLength(body) ==
  IF body.code.k = "string" THEN CodeLength(body.code.v) ELSE 0

InitApi ==
  /\ req = NoReq
  /\ pc = "idle"
  /\ resp = NoResp
  /\ stages = <<>>
  /\ extCalls = 0
  /\ sent = NoCall
  /\ outcome = NoOutcome

\* the handler answered before any await
Respond(r, st, h) ==
  /\ req' = r
  /\ pc' = "responded"
  /\ resp' = h.resp
  /\ stages' = st
  /\ extCalls' = h.extCalls
  /\ sent' = NoCall
  /\ outcome' = NoOutcome

\* the body parser refused the request (413) because its body is longer than
\* the limit; neither the middleware nor the handler ran
Refuse(r) ==
  /\ req' = r
  /\ pc' = "refused"
  /\ resp' = NoResp
  /\ stages' = <<>>
  /\ extCalls' = 0
  /\ sent' = NoCall
  /\ outcome' = NoOutcome

\* the handler made the external call and awaits it
Await(r, st, h, call) ==
  /\ req' = r
  /\ pc' = "awaiting"
  /\ resp' = NoResp
  /\ stages' = st
  /\ extCalls' = h.extCalls
  /\ sent' = call
  /\ outcome' = NoOutcome

\* the messages argument of generateText: one user message whose content is
\* the prompt text and the image
GenerateCall(endpoint, body) ==
  [kind |-> "generateText",
   messages |->
     <<[role |-> "user",
        content |-> <<[type |-> "text",
                       text |-> composePrompt(endpoint, body.prompt)],
                      [type |-> "image", image |-> body.imageDataURL.v]>>]>>]

\* POST /api/generate (backend/routers/generate.ts); jwtMiddleware has
\* admitted the request and set req.canva.userId
RouterGenerate ==
  /\ pc = "idle"
  /\ \E body \in GenerateBodies, uid \in UserIds :
    LET r == [endpoint |-> "router", body |-> body, userId |-> uid]
        h == generateHandler(body, env.V0_API_KEY)
    IN  /\ IF generateBodyLength(body) > bodySizeLimit("router")
           THEN Refuse(r)
           ELSE IF h.call
           THEN Await(r, <<"auth", "validate", "generate">>, h,
                      GenerateCall("router", body))
           ELSE Respond(r, <<"auth", "validate">>, h)
        /\ UNCHANGED env

\* pages/api/generate.ts: export default withAuth(handler)
PagesGenerate ==
  /\ pc = "idle"
  /\ \E a \in PagesAuthRequests, method \in {"POST", "GET"}, body \in GenerateBodies :
    LET auth == withAuth(a, env.CANVA_JWT_SECRET)
        r == [endpoint |-> "pages", auth |-> a, method |-> method,
              body |-> body, userId |-> auth.user.sub.v]
        h == generateHandler(body, env.VERCEL_API_KEY)
    IN  /\ IF generateBodyLength(body) > bodySizeLimit("pages")
           THEN Refuse(r)
           ELSE IF ~auth.invoked
           THEN Respond(r, <<"auth">>, Answer(auth.resp))
           ELSE IF method # "POST"
           THEN Respond(r, <<"auth">>,
                        Answer(ErrorResp(405, "Method not allowed. Use POST.")))
           ELSE IF h.call
           THEN Await(r, <<"auth", "validate", "generate">>, h,
                      GenerateCall("pages", body))
           ELSE Respond(r, <<"auth", "validate">>, h)
        /\ UNCHANGED env

\* POST /api/deploy (backend/routers/deploy.ts); jwtMiddleware has admitted
\* the request and set req.canva.userId; now is Date.now()
Deploy ==
  /\ pc = "idle"
  /\ \E body \in DeployBodies, uid \in UserIds, now \in 0..MaxNow :
    LET r == [endpoint |-> "deploy", body |-> body, userId |-> uid, now |-> now]
        h == deployHandler(body, env.VERCEL_ACCESS_TOKEN)
    IN  /\ IF deployBodyLength(body) > bodySizeLimit("deploy")
           THEN Refuse(r)
           ELSE IF h.call
           THEN Await(r, <<"auth", "validate", "scaffold", "deploy">>, h,
                      [kind |-> "fetch",
                       token |-> env.VERCEL_ACCESS_TOKEN,
                       payload |-> deploymentPayload(body.code.v,
                                     formattedComponentName(body),
                                     formattedProjectName(body, uid, now),
                                     formattedFramework(body))])
           ELSE Respond(r, <<"auth", "validate">>, h)
        /\ UNCHANGED env

\* generateText resolves with a completion
GenerateTextResolves ==
  \E raw \in RawOutputs :
    /\ pc = "awaiting"
    /\ req.endpoint \in {"router", "pages"}
    /\ resp' = SuccessResp(Some(generatedCode(req.endpoint, raw)), NoStr, req.userId)
    /\ pc' = "responded"
    /\ stages' = IF req.endpoint = "router" THEN Append(stages, "sanitize") ELSE stages
    /\ outcome' = [kind |-> "text", raw |-> raw]
    /\ UNCHANGED <<req, extCalls, sent, env>>

\* generateText is called without maxRetries, so the AI SDK applies its
\* default: an attempt that fails with a retryable error (429, 5xx, network)
\* is sent again, up to maxRetries times, before generateText rejects
maxRetries == 2

GenerateTextRetries ==
  /\ pc = "awaiting"
  /\ req.endpoint \in {"router", "pages"}
  /\ extCalls < 1 + maxRetries
  /\ extCalls' = extCalls + 1
  /\ UNCHANGED <<req, pc, resp, stages, sent, outcome, env>>

\* generateText rejects
GenerateTextRejects ==
  \E f \in Failures :
    /\ pc = "awaiting"
    /\ req.endpoint \in {"router", "pages"}
    /\ resp' = handlerCatch(f, "Failed to generate code. Please try again.")
    /\ pc' = "responded"
    /\ outcome' = [kind |-> "failure", failure |-> f]
    /\ UNCHANGED <<req, stages, extCalls, sent, env>>

\* the hosting platform answers 2xx with the URL of the deployment
FetchResolves ==
  \E url \in DeploymentUrls :
    /\ pc = "awaiting"
    /\ req.endpoint = "deploy"
    /\ resp' = SuccessResp(NoText, Some(url), req.userId)
    /\ pc' = "responded"
    /\ outcome' = [kind |-> "url", url |-> url]
    /\ UNCHANGED <<req, stages, extCalls, sent, env>>

\* fetch rejects, or the hosting platform answers with an error body
FetchRejects ==
  \E f \in Failures :
    /\ pc = "awaiting"
    /\ req.endpoint = "deploy"
    /\ resp' = handlerCatch(f, "Failed to deploy code. Please try again.")
    /\ pc' = "responded"
    /\ outcome' = [kind |-> "failure", failure |-> f]
    /\ UNCHANGED <<req, stages, extCalls, sent, env>>

(***************************************************************************)
(* withRateLimit (src/middleware/auth.ts)                                  *)
(***************************************************************************)
\* the default of the parameter maxRequests
DefaultMaxRequests == 10

\* windowMs, in units of the model's clock (the default 60000 ms is one unit)
WindowLengths == {1, 2}

Limits ==
  [maxRequests : (0..MaxRequestsTried) \cup {DefaultMaxRequests},
   windowMs : WindowLengths]

\* what a request tells about its sender
RateRequests ==
  {[forwarded |-> "10.0.0.1", remoteAddress |-> "10.9.9.9"],
   [forwarded |-> "", remoteAddress |-> "10.0.0.1"],
   [forwarded |-> "", remoteAddress |-> ""]}

\* req.headers['x-forwarded-for'] || req.connection.remoteAddress || 'unknown'
clientId(r) ==
  IF r.forwarded # "" THEN r.forwarded
  ELSE IF r.remoteAddress # "" THEN r.remoteAddress
  ELSE "unknown"

ClientIds == {clientId(r) : r \in RateRequests}

NoEntry == [has |-> FALSE, count |-> 0, resetTime |-> 0]

\* an update that restarts the window with every request it counts
countRequestExtending(clientData, now, windowMs) ==
  IF ~clientData.has \/ now > clientData.resetTime
  THEN [has |-> TRUE, count |-> 1, resetTime |-> now + windowMs]
  ELSE [clientData EXCEPT !.count = @ + 1, !.resetTime = now + windowMs]

\* an update that keeps the count it read
countRequestLossy(clientData, now, windowMs) ==
  IF ~clientData.has \/ now > clientData.resetTime
  THEN [has |-> TRUE, count |-> 1, resetTime |-> now + windowMs]
  ELSE clientData

\* the entry of requestCounts for id after withRateLimit handled a request of
\* id at time now
countRequest(clientData, now, windowMs) ==
  IF ~clientData.has \/ now > clientData.resetTime
  THEN [has |-> TRUE, count |-> 1, resetTime |-> now + windowMs]
  ELSE [clientData EXCEPT !.count = @ + 1]

\* a comparison that is also made for the request that opens a window
rateLimitedFromFirst(clientData, now, maxRequests) ==
  IF ~clientData.has \/ now > clientData.resetTime
  THEN 1 > maxRequests
  ELSE clientData.count + 1 > maxRequests

\* a comparison that ignores the reset time
rateLimitedForever(clientData, now, maxRequests) ==
  clientData.has /\ clientData.count + 1 > maxRequests

\* TRUE when withRateLimit answers 429 instead of calling the handler
rateLimited(clientData, now, maxRequests) ==
  /\ ~(~clientData.has \/ now > clientData.resetTime)
  /\ clientData.count + 1 > maxRequests

InitRate ==
  /\ requestCounts = [id \in ClientIds |-> NoEntry]
  /\ clock = 0
  /\ passed = [id \in ClientIds |-> 0]
  /\ received = [id \in ClientIds |-> 0]
  /\ lastRate = [id |-> "", status |-> 0, handled |-> FALSE, reopened |-> FALSE]
  /\ rateResp = NoResp

\* one request through withRateLimit(maxRequests, windowMs)(handler)
RateLimitedRequest ==
  \E r \in RateRequests :
    LET id == clientId(r)
        clientData == requestCounts[id]
        opens == ~clientData.has \/ clock > clientData.resetTime
        denied == rateLimited(clientData, clock, limit.maxRequests)
    IN  /\ opens \/ clientData.count < limit.maxRequests + MaxOverLimit
        /\ requestCounts' =
             [requestCounts EXCEPT ![id] = countRequest(clientData, clock, limit.windowMs)]
        /\ passed' = [passed EXCEPT ![id] =
                        IF denied THEN @ ELSE IF opens THEN 1 ELSE @ + 1]
        /\ received' = [received EXCEPT ![id] = IF opens THEN 1 ELSE @ + 1]
        /\ lastRate' = [id |-> id, status |-> IF denied THEN 429 ELSE 200,
                        handled |-> ~denied,
                        reopened |-> clientData.has /\ clock > clientData.resetTime]
        /\ rateResp' = IF denied
                       THEN ErrorResp(429, "Rate limit exceeded. Please try again later.")
                       ELSE NoResp
        /\ UNCHANGED <<limit, clock>>

\* time passes
Tick ==
  /\ clock < MaxClock
  /\ clock' = clock + 1
  /\ UNCHANGED <<limit, requestCounts, passed, received, lastRate, rateResp>>

(***************************************************************************)
(* The ExportDesign component (src/components/export_design.tsx).  The     *)
(* file holds the version that tracks one status field and the version     *)
(* that streams the code.  A handler runs to its next await without        *)
(* interruption; a click is handled between such steps, on the buttons of  *)
(* the latest render.  Text is a sequence of characters: "a" is a one-byte *)
(* character, "e" is the character encoded by the bytes "L" "T", "?" is    *)
(* the replacement character.                                              *)
(***************************************************************************)
MaxExportRuns == 2

\* chunks delivered in one behaviour, over all runs
MaxChunks == 2

\* the values reader.read() delivers
Chunks == {<<"a">>, <<"L">>, <<"T">>}

\* a decoder that decodes every chunk on its own
decodeChunkAlone(pending, chunk) ==
  [out |-> IF chunk = <<"a">> THEN <<"a">> ELSE <<"?">>, pending |-> FALSE]

\* decoder.decode(value, { stream: true }) for a chunk of one byte; pending:
\* the decoder holds the first byte of a two-byte character
decodeChunk(pending, chunk) ==
  IF chunk = <<"L">>
  THEN [out |-> IF pending THEN <<"?">> ELSE <<>>, pending |-> TRUE]
  ELSE IF chunk = <<"T">>
  THEN [out |-> IF pending THEN <<"e">> ELSE <<"?">>, pending |-> FALSE]
  ELSE [out |-> IF pending THEN <<"?", "a">> ELSE <<"a">>, pending |-> FALSE]

\* the code field of the JSON body /api/generate answers with
ResponseCodes == {<<>>, <<"a">>, <<"e", "a">>}

\* data.code || data.text || 'No code generated'
codeOfResponse(code) == IF code # <<>> THEN code ELSE <<"N", "o">>

\* a value of type string | null that is truthy
TruthyCode(c) == c.has /\ c.v # <<>>

IdleUi(version) ==
  [version |-> version,
   status |-> IF version = "status" THEN "idle" ELSE "",
   isExporting |-> FALSE, isGenerating |-> FALSE, isStreaming |-> FALSE,
   generatedCode |-> IF version = "status" THEN Some(<<>>) ELSE NoText,
   streamingCode |-> <<>>,
   error |-> ""]

\* a loading flag that leaves out isStreaming
isLoadingWithoutStreaming(u) ==
  IF u.version = "status" THEN u.status \in {"exporting", "generating"}
  ELSE u.isExporting \/ u.isGenerating

\* const isLoading = ...
isLoading(u) ==
  IF u.version = "status" THEN u.status \in {"exporting", "generating"}
  ELSE u.isExporting \/ u.isGenerating \/ u.isStreaming

isCompleted(u) ==
  IF u.version = "status" THEN u.status = "completed"
  ELSE TruthyCode(u.generatedCode) /\ ~isLoading(u)

\* error: the message of the failure shown, '' or null when there is none
hasError(u) == IF u.version = "status" THEN u.status = "error" ELSE u.error # ""

\* a run is between its click and the end of handleExportAndGenerate
InFlight(run) == run.pc # "done"

\* if (generatedCode) onCodeGenerated(generatedCode), with the generatedCode
\* of the render whose button was clicked
notifyFromClosure(run) ==
  IF TruthyCode(run.captured) THEN Append(run.notified, run.captured.v)
  ELSE run.notified

InitExport ==
  /\ ui \in {IdleUi("status"), IdleUi("streaming")}
  /\ exportRuns = <<>>

\* the user clicks 'Export & Generate Code': handleExportAndGenerate up to
\* the await of exportDesignAsImage
ClickExportAndGenerate ==
  /\ ~isLoading(ui)
  /\ Len(exportRuns) < MaxExportRuns
  /\ ui' = IF ui.version = "status"
            THEN [ui EXCEPT !.status = "exporting", !.error = "",
                            !.generatedCode = Some(<<>>)]
            ELSE [ui EXCEPT !.isExporting = TRUE, !.isGenerating = FALSE,
                            !.error = "", !.generatedCode = NoText,
                            !.streamingCode = <<>>]
  /\ exportRuns' = Append(exportRuns,
       [pc |-> "exporting", captured |-> ui.generatedCode, chunks |-> <<>>,
        pending |-> FALSE, acc |-> <<>>, ended |-> "", notified |-> <<>>])

\* exportDesignAsImage resolves; the run goes on to the generation request
\* (streamCodeGeneration, respectively generateCodeFromImage) up to its fetch
ExportResolves(i) ==
  /\ exportRuns[i].pc = "exporting"
  /\ ui' = IF ui.version = "status"
            THEN [ui EXCEPT !.status = "generating"]
            ELSE [ui EXCEPT !.isExporting = FALSE, !.isStreaming = TRUE,
                            !.streamingCode = <<>>, !.error = ""]
  /\ exportRuns' = [exportRuns EXCEPT ![i].pc = "fetching"]

\* exportDesignAsImage rejects: the catch of handleExportAndGenerate
ExportRejects(i) ==
  /\ exportRuns[i].pc = "exporting"
  /\ ui' = IF ui.version = "status"
            THEN [ui EXCEPT !.status = "error", !.error = "Failed to export design"]
            ELSE [ui EXCEPT !.error = "Failed to export design", !.isExporting = FALSE,
                            !.isGenerating = FALSE, !.isStreaming = FALSE]
  /\ exportRuns' = [exportRuns EXCEPT ![i].pc = "done", ![i].ended = "failed"]

\* the streaming request is answered 2xx: the run starts reading the body
StreamOpens(i) ==
  /\ ui.version = "streaming"
  /\ exportRuns[i].pc = "fetching"
  /\ exportRuns' = [exportRuns EXCEPT ![i].pc = "reading"]
  /\ UNCHANGED ui

RECURSIVE ChunksDelivered(_)
ChunksDelivered(rs) ==
  IF rs = <<>> THEN 0 ELSE Len(Head(rs).chunks) + ChunksDelivered(Tail(rs))

\* reader.read() resolves with a chunk
ReadChunk(i, chunk) ==
  /\ exportRuns[i].pc = "reading"
  /\ ChunksDelivered(exportRuns) < MaxChunks
  /\ LET run == exportRuns[i]
         d == decodeChunk(run.pending, chunk)
         accumulatedCode == run.acc \o d.out
     IN  /\ exportRuns' = [exportRuns EXCEPT ![i].chunks = Append(run.chunks, chunk),
                                              ![i].pending = d.pending,
                                              ![i].acc = accumulatedCode]
         /\ ui' = [ui EXCEPT !.streamingCode = accumulatedCode]

\* reader.read() resolves with done: generatedCode is set, the finally
\* block runs, and handleExportAndGenerate notifies the parent
StreamEnds(i) ==
  /\ exportRuns[i].pc = "reading"
  /\ ui' = [ui EXCEPT !.generatedCode = Some(exportRuns[i].acc),
                      !.streamingCode = <<>>, !.isStreaming = FALSE]
  /\ exportRuns' = [exportRuns EXCEPT ![i].pc = "done", ![i].ended = "ok",
                                       ![i].notified = notifyFromClosure(exportRuns[i])]

\* the request fails, is answered with an error status, or a read rejects:
\* the catch and the finally block of streamCodeGeneration, after which
\* handleExportAndGenerate goes on as after a success
StreamFails(i) ==
  /\ ui.version = "streaming"
  /\ exportRuns[i].pc \in {"fetching", "reading"}
  /\ ui' = [ui EXCEPT !.error = "Failed to stream code generation",
                      !.isStreaming = FALSE]
  /\ exportRuns' = [exportRuns EXCEPT ![i].pc = "done", ![i].ended = "failed",
                                       ![i].notified = notifyFromClosure(exportRuns[i])]

\* generateCodeFromImage resolves (status version): the state is completed
\* and the parent is notified with the code of the response
GenerateResolves(i, code) ==
  /\ ui.version = "status"
  /\ exportRuns[i].pc = "fetching"
  /\ LET generated == codeOfResponse(code)
     IN  /\ ui' = [ui EXCEPT !.status = "completed",
                             !.generatedCode = Some(generated)]
         /\ exportRuns' = [exportRuns EXCEPT ![i].pc = "done", ![i].ended = "ok",
                                              ![i].acc = generated,
                                              ![i].notified = <<generated>>]

\* generateCodeFromImage rejects (status version)
GenerateRejects(i) ==
  /\ ui.version = "status"
  /\ exportRuns[i].pc = "fetching"
  /\ ui' = [ui EXCEPT !.status = "error", !.error = "Failed to generate code"]
  /\ exportRuns' = [exportRuns EXCEPT ![i].pc = "done", ![i].ended = "failed"]

\* the user clicks 'Start Over': resetExport
ClickStartOver ==
  /\ hasError(ui) \/ isCompleted(ui)
  /\ ui' = IdleUi(ui.version)
  /\ UNCHANGED exportRuns

(***************************************************************************)
(* GeneratePage (src/pages/generate.tsx) and the CodeDisplay component     *)
(* (src/components/code_display.tsx).  CodeDisplay is rendered while the   *)
(* page's generatedCode is not empty; its deployState lives as long as the *)
(* instance stays mounted.  Which tab panel is shown is the user's choice  *)
(* (Tabs only gets defaultActiveId), so a run of ExportDesign can end, and *)
(* call onCodeGenerated, whatever CodeDisplay is doing.                    *)
(***************************************************************************)
MaxDeploys == 2

MaxInstances == 2

\* the codes onCodeGenerated is called with
DisplayCodes == {<<"a">>, <<"e", "a">>}

NoUrl == <<>>

\* data.deploymentUrl of the response to the deployment of code
UrlOf(code) == <<"vercel.app">> \o code

IdleDeployState == [status |-> "idle", deploymentUrl |-> NoUrl, error |-> FALSE]

InitDisplay ==
  /\ pageCode = <<>>
  /\ display = [instance |-> 0, deployState |-> IdleDeployState]
  /\ deploys = <<>>

\* setDeployState called by a run started on instance inst: it has no effect
\* once that instance is unmounted
setDeployState(inst, state) ==
  IF inst = display.instance /\ pageCode # <<>>
  THEN display' = [display EXCEPT !.deployState = state]
  ELSE UNCHANGED display

\* handleCodeGenerated: ExportDesign calls onCodeGenerated(code); a mounted
\* CodeDisplay gets the new code prop and keeps its state
HandleCodeGenerated(code) ==
  /\ pageCode' = code
  /\ UNCHANGED <<display, deploys>>

\* the user clicks the clear button: onClear = handleClearCode; CodeDisplay
\* is unmounted
HandleClearCode ==
  /\ pageCode # <<>>
  /\ display.instance < MaxInstances
  /\ pageCode' = <<>>
  /\ display' = [instance |-> display.instance + 1, deployState |-> IdleDeployState]
  /\ UNCHANGED deploys

\* the user leaves the code tab and comes back, under a TabPanel that
\* unmounts the panel it hides: a new CodeDisplay instance is mounted
TabSwitchRemounts ==
  /\ pageCode # <<>>
  /\ display.instance < MaxInstances
  /\ display' = [instance |-> display.instance + 1, deployState |-> IdleDeployState]
  /\ UNCHANGED <<pageCode, deploys>>

\* the user clicks 'Deploy & Preview': handleDeployAndPreview up to its
\* first await; code is the prop of the render whose button was clicked
ClickDeployAndPreview ==
  /\ pageCode # <<>>
  /\ display.deployState.status # "deploying"
  /\ Len(deploys) < MaxDeploys
  /\ display' = [display EXCEPT !.deployState =
                   [status |-> "deploying", deploymentUrl |-> NoUrl, error |-> FALSE]]
  /\ deploys' = Append(deploys,
       [instance |-> display.instance, code |-> pageCode, pc |-> "fetching"])
  /\ UNCHANGED pageCode

\* /api/deploy answers 2xx with the URL of the deployment of the posted code
DeployResolves(i) ==
  /\ deploys[i].pc = "fetching"
  /\ setDeployState(deploys[i].instance,
       [status |-> "deployed", deploymentUrl |-> UrlOf(deploys[i].code),
        error |-> ""])
  /\ deploys' = [deploys EXCEPT ![i].pc = "done"]
  /\ UNCHANGED pageCode

\* the request fails or is answered with an error status
DeployRejects(i) ==
  /\ deploys[i].pc = "fetching"
  /\ setDeployState(deploys[i].instance,
       [status |-> "error", deploymentUrl |-> NoUrl, error |-> TRUE])
  /\ deploys' = [deploys EXCEPT ![i].pc = "done"]
  /\ UNCHANGED pageCode

\* the user clicks the reset button shown with a deployment: resetDeploy
ResetDeploy ==
  /\ pageCode # <<>>
  /\ display.deployState.status = "deployed"
  /\ display' = [display EXCEPT !.deployState = IdleDeployState]
  /\ UNCHANGED <<pageCode, deploys>>

ExportIdle == ui = IdleUi("streaming") /\ exportRuns = <<>>

DisplayIdle == InitDisplay

AppIdle == ExportIdle /\ DisplayIdle

(***************************************************************************)
(* The specifications.  Each one runs one part of the program; the         *)
(* variables of the other parts keep their initial values.                 *)
(***************************************************************************)
SanIdle == text = <<>> /\ cleaned = <<>> /\ cleanedTwice = <<>> /\ sanPc = "input"

AuthIdle == authReq = NoAuthReq /\ authOut = NoAuthOut

RateIdle == InitRate /\ limit = [maxRequests |-> DefaultMaxRequests, windowMs |-> 1]

ScafIdle == runs = <<>>

\* requests to the generate and deploy endpoints
Init ==
  /\ env \in Environments
  /\ InitApi
  /\ SanIdle /\ AuthIdle /\ RateIdle /\ ScafIdle /\ AppIdle

Next ==
  \/ RouterGenerate /\ UNCHANGED <<sanVars, authVars, rateVars, scafVars, appVars>>
  \/ PagesGenerate /\ UNCHANGED <<sanVars, authVars, rateVars, scafVars, appVars>>
  \/ Deploy /\ UNCHANGED <<sanVars, authVars, rateVars, scafVars, appVars>>
  \/ GenerateTextResolves /\ UNCHANGED <<sanVars, authVars, rateVars, scafVars, appVars>>
  \/ GenerateTextRetries /\ UNCHANGED <<sanVars, authVars, rateVars, scafVars, appVars>>
  \/ GenerateTextRejects /\ UNCHANGED <<sanVars, authVars, rateVars, scafVars, appVars>>
  \/ FetchResolves /\ UNCHANGED <<sanVars, authVars, rateVars, scafVars, appVars>>
  \/ FetchRejects /\ UNCHANGED <<sanVars, authVars, rateVars, scafVars, appVars>>

Spec == Init /\ [][Next]_vars

\* The same requests under the scheduling of the runtime: a handler runs
\* whenever a request is waiting for it (weak fairness of the handlers), and
\* nothing obliges the external services to answer.  The requests are a
\* sample of those of Spec.
SampledRequest ==
  \/ req.endpoint = "none"
  \/ /\ req.endpoint \in {"router", "pages"}
     /\ req.body.imageDataURL \in
          {JsValue("undefined", FALSE, <<>>),
           ImageStr(<<Piece("P", 15), Piece("M", 7), Piece("D", CapLen)>>),
           ImageStr(<<Piece("P", 15), Piece("M", 7), Piece("D", CapLen + 1)>>)}
     /\ req.body.prompt \in {JsValue("undefined", FALSE, ""), Str("make it blue")}
  \/ /\ req.endpoint = "deploy"
     /\ req.body.code.k \in {"undefined", "string"}
     /\ req.body.componentName \in {JsValue("undefined", FALSE, ""), Str("Hero")}
     /\ req.body.projectName = JsValue("undefined", FALSE, "")
     /\ req.body.framework \in
          {JsValue("undefined", FALSE, ""), Str("react"), Str("vue")}

NextSampled ==
  \/ RouterGenerate /\ SampledRequest' /\ UNCHANGED <<sanVars, authVars, rateVars, scafVars, appVars>>
  \/ PagesGenerate /\ SampledRequest' /\ UNCHANGED <<sanVars, authVars, rateVars, scafVars, appVars>>
  \/ Deploy /\ SampledRequest' /\ UNCHANGED <<sanVars, authVars, rateVars, scafVars, appVars>>
  \/ GenerateTextResolves /\ UNCHANGED <<sanVars, authVars, rateVars, scafVars, appVars>>
  \/ GenerateTextRetries /\ UNCHANGED <<sanVars, authVars, rateVars, scafVars, appVars>>
  \/ GenerateTextRejects /\ UNCHANGED <<sanVars, authVars, rateVars, scafVars, appVars>>
  \/ FetchResolves /\ UNCHANGED <<sanVars, authVars, rateVars, scafVars, appVars>>
  \/ FetchRejects /\ UNCHANGED <<sanVars, authVars, rateVars, scafVars, appVars>>

FairSpec ==
  /\ Init
  /\ [][NextSampled]_vars
  /\ WF_vars(RouterGenerate /\ SampledRequest' /\ UNCHANGED <<sanVars, authVars, rateVars, scafVars, appVars>>)
  /\ WF_vars(PagesGenerate /\ SampledRequest' /\ UNCHANGED <<sanVars, authVars, rateVars, scafVars, appVars>>)
  /\ WF_vars(Deploy /\ SampledRequest' /\ UNCHANGED <<sanVars, authVars, rateVars, scafVars, appVars>>)

\* the sanitizer
InitSanitizer ==
  /\ InitSan
  /\ env = Unset("")
  /\ InitApi /\ AuthIdle /\ RateIdle /\ ScafIdle /\ AppIdle

NextSanitizer == NextSan /\ UNCHANGED <<authVars, env, apiVars, rateVars, scafVars, appVars>>

SpecSanitizer == InitSanitizer /\ [][NextSanitizer]_vars

\* withAuth
InitWithAuth ==
  /\ env \in {Unset(""), Unset("CANVA_JWT_SECRET"),
              [Unset("") EXCEPT !.CANVA_JWT_SECRET = "s2"]}
  /\ authReq = NoAuthReq
  /\ authOut = NoAuthOut
  /\ InitApi /\ SanIdle /\ RateIdle /\ ScafIdle /\ AppIdle

NextWithAuth == WithAuthRequest /\ UNCHANGED <<sanVars, apiVars, rateVars, scafVars, appVars>>

SpecWithAuth == InitWithAuth /\ [][NextWithAuth]_vars

\* withRateLimit
InitRateLimit ==
  /\ limit \in Limits
  /\ InitRate
  /\ env = Unset("")
  /\ InitApi /\ SanIdle /\ AuthIdle /\ ScafIdle /\ AppIdle

NextRateLimit ==
  \/ RateLimitedRequest /\ UNCHANGED <<sanVars, authVars, env, apiVars, scafVars, appVars>>
  \/ Tick /\ UNCHANGED <<sanVars, authVars, env, apiVars, scafVars, appVars>>

SpecRateLimit == InitRateLimit /\ [][NextRateLimit]_vars

\* createVercelDeployment, invoked several times while the clock advances
InitScaffold ==
  /\ env \in {Unset(""), Unset("VERCEL_ACCESS_TOKEN")}
  /\ runs = <<>>
  /\ InitApi /\ SanIdle /\ AuthIdle /\ RateIdle /\ AppIdle

NextScaffold ==
  \/ CreateVercelDeployment /\ UNCHANGED <<sanVars, authVars, apiVars, rateVars, appVars>>
  \/ Tick /\ UNCHANGED <<sanVars, authVars, env, apiVars, scafVars, appVars>>

SpecScaffold == InitScaffold /\ [][NextScaffold]_vars

\* the ExportDesign component
InitExportDesign ==
  /\ InitExport
  /\ env = Unset("")
  /\ InitApi /\ SanIdle /\ AuthIdle /\ RateIdle /\ ScafIdle /\ DisplayIdle

NextExportDesign ==
  \/ ClickExportAndGenerate
      /\ UNCHANGED <<sanVars, authVars, env, apiVars, rateVars, scafVars, displayVars>>
  \/ (\E i \in DOMAIN exportRuns : ExportResolves(i))
      /\ UNCHANGED <<sanVars, authVars, env, apiVars, rateVars, scafVars, displayVars>>
  \/ (\E i \in DOMAIN exportRuns : ExportRejects(i))
      /\ UNCHANGED <<sanVars, authVars, env, apiVars, rateVars, scafVars, displayVars>>
  \/ (\E i \in DOMAIN exportRuns : StreamOpens(i))
      /\ UNCHANGED <<sanVars, authVars, env, apiVars, rateVars, scafVars, displayVars>>
  \/ (\E i \in DOMAIN exportRuns : \E chunk \in Chunks : ReadChunk(i, chunk))
      /\ UNCHANGED <<sanVars, authVars, env, apiVars, rateVars, scafVars, displayVars>>
  \/ (\E i \in DOMAIN exportRuns : StreamEnds(i))
      /\ UNCHANGED <<sanVars, authVars, env, apiVars, rateVars, scafVars, displayVars>>
  \/ (\E i \in DOMAIN exportRuns : StreamFails(i))
      /\ UNCHANGED <<sanVars, authVars, env, apiVars, rateVars, scafVars, displayVars>>
  \/ (\E i \in DOMAIN exportRuns : \E code \in ResponseCodes : GenerateResolves(i, code))
      /\ UNCHANGED <<sanVars, authVars, env, apiVars, rateVars, scafVars, displayVars>>
  \/ (\E i \in DOMAIN exportRuns : GenerateRejects(i))
      /\ UNCHANGED <<sanVars, authVars, env, apiVars, rateVars, scafVars, displayVars>>
  \/ ClickStartOver
      /\ UNCHANGED <<sanVars, authVars, env, apiVars, rateVars, scafVars, displayVars>>

SpecExportDesign == InitExportDesign /\ [][NextExportDesign]_vars

\* GeneratePage with CodeDisplay
InitCodeDisplay ==
  /\ InitDisplay
  /\ env = Unset("")
  /\ InitApi /\ SanIdle /\ AuthIdle /\ RateIdle /\ ScafIdle /\ ExportIdle

NextCodeDisplay ==
  \/ (\E code \in DisplayCodes : HandleCodeGenerated(code))
      /\ UNCHANGED <<sanVars, authVars, env, apiVars, rateVars, scafVars, exportVars>>
  \/ HandleClearCode
      /\ UNCHANGED <<sanVars, authVars, env, apiVars, rateVars, scafVars, exportVars>>
  \/ TabSwitchRemounts
      /\ UNCHANGED <<sanVars, authVars, env, apiVars, rateVars, scafVars, exportVars>>
  \/ ClickDeployAndPreview
      /\ UNCHANGED <<sanVars, authVars, env, apiVars, rateVars, scafVars, exportVars>>
  \/ (\E i \in DOMAIN deploys : DeployResolves(i))
      /\ UNCHANGED <<sanVars, authVars, env, apiVars, rateVars, scafVars, exportVars>>
  \/ (\E i \in DOMAIN deploys : DeployRejects(i))
      /\ UNCHANGED <<sanVars, authVars, env, apiVars, rateVars, scafVars, exportVars>>
  \/ ResetDeploy
      /\ UNCHANGED <<sanVars, authVars, env, apiVars, rateVars, scafVars, exportVars>>

SpecCodeDisplay == InitCodeDisplay /\ [][NextCodeDisplay]_vars

\* The three middlewares and handlers side by side.  They share no state,
\* so a behaviour follows the requests to one of them: an endpoint, withAuth
\* alone, or withRateLimit alone.
ApiOnly == authOut = NoAuthOut /\ lastRate.id = "" /\ clock = 0

AuthOnly == pc = "idle" /\ lastRate.id = "" /\ clock = 0

RateOnly == pc = "idle" /\ authOut = NoAuthOut

NextResponses ==
  \/ ApiOnly /\ RouterGenerate /\ UNCHANGED <<sanVars, authVars, rateVars, scafVars, appVars>>
  \/ ApiOnly /\ PagesGenerate /\ UNCHANGED <<sanVars, authVars, rateVars, scafVars, appVars>>
  \/ ApiOnly /\ Deploy /\ UNCHANGED <<sanVars, authVars, rateVars, scafVars, appVars>>
  \/ GenerateTextResolves /\ UNCHANGED <<sanVars, authVars, rateVars, scafVars, appVars>>
  \/ GenerateTextRetries /\ UNCHANGED <<sanVars, authVars, rateVars, scafVars, appVars>>
  \/ GenerateTextRejects /\ UNCHANGED <<sanVars, authVars, rateVars, scafVars, appVars>>
  \/ FetchResolves /\ UNCHANGED <<sanVars, authVars, rateVars, scafVars, appVars>>
  \/ FetchRejects /\ UNCHANGED <<sanVars, authVars, rateVars, scafVars, appVars>>
  \/ AuthOnly /\ WithAuthRequest /\ UNCHANGED <<sanVars, apiVars, rateVars, scafVars, appVars>>
  \/ RateOnly /\ RateLimitedRequest
       /\ UNCHANGED <<sanVars, authVars, env, apiVars, scafVars, appVars>>
  \/ RateOnly /\ Tick /\ UNCHANGED <<sanVars, authVars, env, apiVars, scafVars, appVars>>

SpecResponses == Init /\ [][NextResponses]_vars

(***************************************************************************)
(* Properties                                                              *)
(***************************************************************************)
Range(q) == {q[i] : i \in DOMAIN q}

IsGenerate == req.endpoint \in {"router", "pages"}

\* C1: a request answered with 400 caused no external call, and an external
\* call is made only for a request that passed every validation check of its
\* handler (generate and deploy).
C1_ValidationBeforeExternalCall ==
  /\ resp.status = 400 => extCalls = 0
  /\ extCalls > 0 /\ IsGenerate =>
       /\ req.body.isObject
       /\ req.body.imageDataURL.truthy /\ req.body.imageDataURL.k = "string"
       /\ ~(req.body.prompt.truthy /\ req.body.prompt.k # "string")
       /\ validateImageDataURL(req.body.imageDataURL.v).isValid
  /\ extCalls > 0 /\ req.endpoint = "deploy" =>
       /\ req.body.isObject
       /\ req.body.code.truthy /\ req.body.code.k = "string"
       /\ ~(req.body.componentName.truthy /\ req.body.componentName.k # "string")
       /\ ~(req.body.projectName.truthy /\ req.body.projectName.k # "string")
       /\ ~(req.body.framework.truthy /\ ~SupportedFramework(req.body.framework))

\* an oversized image was answered with 400
C1_Witness ==
  /\ pc = "responded" /\ req.endpoint = "router"
  /\ resp.status = 400 /\ resp.error.v = "Image too large. Maximum size is 10MB"

\* C2: withAuth calls the protected handler only after it evaluated, in this
\* order, the header, secret, signature, claims, issuer and expiry checks and
\* all of them passed, and it calls it with the verified claims as req.user.
C2_HandlerOnlyForVerifiedToken ==
  authOut.invoked =>
    LET token == authReq.header.token
    IN  /\ authReq.header.present /\ authReq.header.scheme = "Bearer "
        /\ env.CANVA_JWT_SECRET # ""
        /\ token.wellFormed /\ token.signedWith = env.CANVA_JWT_SECRET
        /\ TruthyStr(token.payload.sub) /\ TruthyStr(token.payload.aud)
        /\ TruthyStr(token.payload.iss)
        /\ token.payload.iss.v = TrustedIssuer
        /\ ~(token.payload.exp.has /\ token.payload.exp.v < authReq.now)
        /\ authOut.user = token.payload
        /\ authOut.resp = NoResp
        /\ authOut.checks =
             <<"header", "secret", "verify", "claims", "issuer", "expiry">>

\* the handler was called for a token that carries an expiry
C2_Witness == authOut.invoked /\ authOut.user.exp.has

\* C3: withRateLimit(maxRequests, windowMs) hands at most maxRequests
\* requests of a client to the handler within one window; with the default
\* maxRequests the 11th request of a window is answered 429 and not handled.
C3_AtMostMaxRequestsPerWindow ==
  /\ \A id \in ClientIds : passed[id] <= limit.maxRequests
  /\ \A id \in ClientIds :
       (/\ limit.maxRequests = DefaultMaxRequests
        /\ lastRate.id = id
        /\ requestCounts[id].count = DefaultMaxRequests + 1)
         => lastRate.status = 429 /\ ~lastRate.handled

\* C4: no generate request is validated, and no generation call is made,
\* unless the rate limiter ran for the request after the identity check.
C4_RateLimiterBeforeValidation ==
  (IsGenerate /\ ("validate" \in Range(stages) \/ extCalls > 0))
    => \E i, j, k \in DOMAIN stages :
         /\ i < j /\ j < k
         /\ stages[i] = "auth" /\ stages[j] = "ratelimit" /\ stages[k] = "validate"

\* C5: an image string with the data:image/ prefix and a base64 marker is
\* accepted if and only if the characters after its first marker, times 3/4,
\* are at most maxSize; an image over the cap is answered 400 without a
\* generation call.
C5_ImageSizeCap ==
  LET u == req.body.imageDataURL.v
      payloadLen == PiecesLength(SubSeq(u, MarkerIndex(u, 1) + 1, Len(u)))
  IN  (/\ IsGenerate /\ "validate" \in Range(stages)
       /\ req.body.isObject
       /\ req.body.imageDataURL.k = "string"
       /\ ~(req.body.prompt.truthy /\ req.body.prompt.k # "string")
       /\ u # <<>> /\ u[1].k = "P" /\ MarkerIndex(u, 1) # 0)
      => IF payloadLen * 3 <= maxSize * 4
         THEN resp.status # 400
         ELSE resp.status = 400 /\ extCalls = 0

\* C6: filterThinkingTags is idempotent.
C6_SanitizerIdempotent == sanPc = "twice" => cleanedTwice = cleaned

\* C7: every request that reached its external call is eventually answered.
C7_ExternalCallAnswered == (pc = "awaiting") ~> (pc = "responded")

\* C8: when the generation call fails, the generate handler answers 429 for
\* an upstream quota/rate-limit signal, 401 for an upstream authentication
\* failure and 500 for any other failure.
C8_FailureClassification ==
  (pc = "responded" /\ IsGenerate /\ outcome.kind = "failure")
    => /\ outcome.failure.kind = "quota" => resp.status = 429
       /\ outcome.failure.kind = "auth" => resp.status = 401
       /\ outcome.failure.kind = "other" => resp.status = 500

\* C9: a generate request with a valid image and no instructions whose
\* generation call succeeds is answered 200, success = true, with the
\* sanitized completion as code; the completion
\* <thinking>x</thinking>x x  gives the code  x x.
C9_SuccessCarriesSanitizedCode ==
  (pc = "responded" /\ IsGenerate /\ outcome.kind = "text"
     /\ ~req.body.prompt.truthy)
    => /\ resp.status = 200 /\ resp.success
       /\ resp.code = Some(filterThinkingTags(outcome.raw))
       /\ outcome.raw = <<"O", "x", "C", "x", "s", "x">>
            => resp.code.v = <<"x", "s", "x">>

\* C10: the paths of the file set sent to the hosting platform are pairwise
\* distinct.
C10_PathsDistinct ==
  sent.kind = "fetch" =>
    \A i, j \in DOMAIN sent.payload.files :
      i # j => sent.payload.files[i].file # sent.payload.files[j].file

\* the path createVercelDeployment writes the generated component to
ComponentPath(componentName, framework) ==
  IF framework = "next"
  THEN "components/" \o componentName \o ".tsx"
  ELSE "src/components/" \o componentName \o ".tsx"

\* the path of the entry page
EntryPath(framework) == IF framework = "next" THEN "app/page.tsx" ELSE "src/App.tsx"

\* C11: for both framework tags the file set holds a manifest, a
\* type-checker configuration, a styling configuration, the seven UI
\* primitives, an entry page that imports the generated component and the
\* generated component.
C11_ScaffoldComplete ==
  sent.kind = "fetch" =>
    LET files == sent.payload.files
        paths == {f.file : f \in Range(files)}
        cn == formattedComponentName(req.body)
        fw == formattedFramework(req.body)
    IN  /\ "package.json" \in paths
        /\ "tsconfig.json" \in paths
        /\ "tailwind.config.js" \in paths
        /\ \A u \in UiPrimitives :
             \/ ("components/ui/" \o u \o ".tsx") \in paths
             \/ ("src/components/ui/" \o u \o ".tsx") \in paths
        /\ EntryPath(fw) \in paths
        /\ ComponentPath(cn, fw) \in paths

\* C12: the caller's code is, unchanged, the content of exactly one file at
\* the path of the generated component, and the entry page imports the
\* component from that path and renders it under componentName.
C12_CodeVerbatimAtFixedPath ==
  sent.kind = "fetch" =>
    LET files == sent.payload.files
        cn == IF req.body.componentName.truthy THEN req.body.componentName.v
              ELSE "GeneratedComponent"
        fw == IF req.body.framework.truthy THEN req.body.framework.v ELSE "next"
        from == IF fw = "next" THEN "@/components/" ELSE "./components/"
    IN  /\ Cardinality({i \in DOMAIN files :
                          /\ files[i].file = ComponentPath(cn, fw)
                          /\ files[i].data = req.body.code.v}) = 1
        /\ \E i \in DOMAIN files :
             /\ files[i].file = EntryPath(fw)
             /\ files[i].data =
                  "import " \o cn \o " from '" \o from \o cn \o "' <" \o cn \o " />"

\* a react deployment of a named component was sent
C12_Witness ==
  /\ sent.kind = "fetch"
  /\ req.body.framework.v = "react"
  /\ req.body.componentName.v = "Hero"
  /\ sent.payload.files[2] =
       File("src/components/Hero.tsx", "export default function C(){return null}")

\* the manifest without the value of its name field
ManifestTemplate(data, projectName) ==
  SubSeq(data, 1, Len(data) - Len(projectName))

\* the value of the manifest's name field
ManifestName(data, projectName) ==
  SubSeq(data, Len(data) - Len(projectName) + 1, Len(data))

\* C13: two invocations with the same componentName and framework build the
\* same list of paths and the same contents, except the name field of
\* package.json and the content of the generated component.
C13_OnlyNameAndCodeVary ==
  \A i, j \in DOMAIN runs :
    LET a == runs[i].args
        b == runs[j].args
        f == runs[i].payload.files
        g == runs[j].payload.files
    IN  (/\ ~runs[i].threw /\ ~runs[j].threw
         /\ a.componentName = b.componentName
         /\ a.framework = b.framework)
        => /\ Len(f) = Len(g)
           /\ \A k \in DOMAIN f :
                /\ f[k].file = g[k].file
                /\ IF f[k].file = "package.json"
                   THEN /\ ManifestName(f[k].data, a.projectName) = a.projectName
                        /\ ManifestName(g[k].data, b.projectName) = b.projectName
                        /\ ManifestTemplate(f[k].data, a.projectName)
                             = ManifestTemplate(g[k].data, b.projectName)
                   ELSE IF f[k].file = ComponentPath(a.componentName, a.framework)
                   THEN \/ f[k].data = g[k].data
                        \/ f[k].data = a.code /\ g[k].data = b.code
                   ELSE f[k].data = g[k].data

\* two invocations for the same component and framework that differ in the
\* project name and in the code
C13_Witness ==
  /\ Len(runs) >= 2
  /\ ~runs[1].threw /\ ~runs[2].threw
  /\ runs[1].args.componentName = runs[2].args.componentName
  /\ runs[1].args.framework = "next" /\ runs[2].args.framework = "next"
  /\ runs[1].args.projectName # runs[2].args.projectName
  /\ runs[1].args.code # runs[2].args.code

AuthHandled == authOut.checks # <<>>

\* the Authorization header is present and starts with 'Bearer '
BearerHeader == authReq.header.present /\ authReq.header.scheme = "Bearer "

\* the bearer token is well formed and signed with the configured secret
SignedToken ==
  /\ authReq.header.token.wellFormed
  /\ authReq.header.token.signedWith = env.CANVA_JWT_SECRET

\* the expiry time of the bearer token has passed
ExpiredToken ==
  /\ authReq.header.token.payload.exp.has
  /\ authReq.header.token.payload.exp.v < authReq.now

C16_ExpiredTokenMessage ==
  LET claims == authReq.header.token.payload
  IN  (/\ AuthHandled /\ BearerHeader /\ SignedToken /\ ExpiredToken
       /\ TruthyStr(claims.sub) /\ TruthyStr(claims.aud)
       /\ claims.iss = Some(TrustedIssuer))
        => /\ authOut.resp.status = 401
           /\ authOut.resp.error = Some("JWT token has expired")

\* C17: without a configured signing secret every request with a 'Bearer '
\* header is answered 500 'Server configuration error' and the handler is
\* not called.
C17_MissingSecretIs500 ==
  (AuthHandled /\ BearerHeader /\ env.CANVA_JWT_SECRET = "")
    => /\ authOut.resp = ErrorResp(500, "Server configuration error")
       /\ ~authOut.invoked

\* a token that would verify under the usual secret, with no secret set
C17_Witness ==
  /\ AuthHandled /\ BearerHeader /\ env.CANVA_JWT_SECRET = ""
  /\ authReq.header.token.wellFormed
  /\ authReq.header.token.signedWith = "s1"
  /\ authReq.header.token.payload.iss = Some(TrustedIssuer)
  /\ authOut.resp.status = 500

\* C18: a request of a client whose window has elapsed (the clock is past
\* the stored reset time) is handed to the handler and opens a new window
\* with count 1 and reset time = request time + windowMs.
C18_ElapsedWindowReopens ==
  [][\A id \in ClientIds :
       (/\ requestCounts[id].has
        /\ clock > requestCounts[id].resetTime
        /\ requestCounts'[id] # requestCounts[id])
         => /\ requestCounts'[id] =
                 [has |-> TRUE, count |-> 1, resetTime |-> clock + limit.windowMs]
            /\ lastRate' = [id |-> id, status |-> 200, handled |-> TRUE,
                            reopened |-> TRUE]]_vars

\* a client came back after its window had elapsed and was handled
C18_Witness ==
  /\ lastRate.reopened /\ lastRate.handled
  /\ limit.maxRequests = 1
  /\ requestCounts[lastRate.id].count = 1
  /\ requestCounts[lastRate.id].resetTime = clock + limit.windowMs

\* C19: the stored count of a client equals the number of requests received
\* from it since its window opened, whatever requests of other clients came
\* in between.
C19_CountEqualsReceived ==
  \A id \in ClientIds :
    /\ requestCounts[id].count = received[id]
    /\ requestCounts[id].has <=> received[id] > 0

\* two clients with open windows, one of them counted twice
C19_Witness ==
  \E a, b \in ClientIds :
    /\ a # b
    /\ received[a] = 2 /\ requestCounts[a].count = 2
    /\ received[b] = 1 /\ lastRate.id = b

\* C20: a deploy request whose code is longer than maxCodeSize is answered
\* 400 before the file set is built and before the hosting platform is
\* called.
C20_CodeSizeCap ==
  (/\ req.endpoint = "deploy"
   /\ req.body.isObject
   /\ req.body.code.k = "string"
   /\ CodeLength(req.body.code.v) > maxCodeSize)
    => /\ resp.status = 400
       /\ extCalls = 0
       /\ "scaffold" \notin Range(stages)

\* the field is present in the JSON body with a value that is not a string
PresentNonString(x) == x.k \notin {"undefined", "string"}

\* the generate handler of req got as far as its check of the prompt
ReachedPromptCheck ==
  /\ IsGenerate
  /\ "validate" \in Range(stages)
  /\ req.body.isObject
  /\ req.body.imageDataURL.truthy /\ req.body.imageDataURL.k = "string"

\* C21: a prompt that is present with a non-string value (next to an image
\* that passes validation) is answered 400 naming the prompt, and no
\* generation call is made.
C21_NonStringPromptRejected ==
  (/\ ReachedPromptCheck
   /\ validateImageDataURL(req.body.imageDataURL.v).isValid
   /\ PresentNonString(req.body.prompt))
    => /\ resp = ErrorResp(400, "Invalid prompt. Must be a string.")
       /\ extCalls = 0

\* the deploy handler of req got as far as its checks of the optional fields
ReachedOptionalChecks ==
  /\ req.endpoint = "deploy"
  /\ req.body.isObject
  /\ req.body.code.truthy /\ req.body.code.k = "string"

\* C22: a componentName or projectName present with a non-string value, or a
\* framework present with a value other than 'next' and 'react', is answered
\* 400 naming the field, and no deployment call is made.
C22_InvalidOptionalFieldRejected ==
  LET b == req.body
      badName == PresentNonString(b.componentName)
      badProject == PresentNonString(b.projectName)
      badFramework == b.framework.k # "undefined" /\ ~SupportedFramework(b.framework)
  IN  (ReachedOptionalChecks /\ (badName \/ badProject \/ badFramework))
        => /\ resp.status = 400
           /\ resp.error =
                Some(IF badName THEN "Invalid componentName. Must be a string."
                     ELSE IF badProject THEN "Invalid projectName. Must be a string."
                     ELSE "Invalid framework. Must be \"next\" or \"react\".")
           /\ extCalls = 0

\* the body of the generate request of req passes every validation check
GenerateBodyValid ==
  /\ req.body.isObject
  /\ req.body.imageDataURL.truthy /\ req.body.imageDataURL.k = "string"
  /\ ~(req.body.prompt.truthy /\ req.body.prompt.k # "string")
  /\ validateImageDataURL(req.body.imageDataURL.v).isValid

\* the body of the deploy request of req passes every validation check
DeployBodyValid ==
  /\ req.body.isObject
  /\ req.body.code.truthy /\ req.body.code.k = "string"
  /\ ~(req.body.componentName.truthy /\ req.body.componentName.k # "string")
  /\ ~(req.body.projectName.truthy /\ req.body.projectName.k # "string")
  /\ ~(req.body.framework.truthy /\ ~SupportedFramework(req.body.framework))

\* the environment variable the handler of req takes its credential from
CredentialOf(endpoint) ==
  IF endpoint = "router" THEN env.V0_API_KEY
  ELSE IF endpoint = "pages" THEN env.VERCEL_API_KEY
  ELSE env.VERCEL_ACCESS_TOKEN

\* C23: a generate or deploy request that passes validation while the
\* credential of its external service is not set is answered 500 with the
\* configuration message of the handler, and no external call is made.
C23_MissingCredentialIs500 ==
  (/\ "validate" \in Range(stages)
   /\ IF IsGenerate THEN GenerateBodyValid ELSE DeployBodyValid
   /\ CredentialOf(req.endpoint) = "")
    => /\ resp.status = 500 /\ ~resp.success
       /\ resp.error =
            Some(IF IsGenerate THEN "Server configuration error: Missing API key"
                 ELSE "Server configuration error: Missing deployment token")
       /\ extCalls = 0
       /\ sent = NoCall

\* a valid deploy request met a server without VERCEL_ACCESS_TOKEN
C23_Witness ==
  /\ pc = "responded" /\ req.endpoint = "deploy"
  /\ DeployBodyValid
  /\ env.VERCEL_ACCESS_TOKEN = ""
  /\ resp.status = 500

\* the shape of a response that was sent
ResponseShape(r) ==
  IF r.status = 200
  THEN r.success
  ELSE /\ ~r.success
       /\ r.error.has /\ r.error.v # ""
       /\ ~r.code.has /\ ~r.deploymentUrl.has

\* C24: every response of withAuth, withRateLimit, the generate handlers and
\* the deploy handler with a status other than 200 has success = false, a
\* non-empty error and neither code nor deploymentUrl; every 200 response
\* has success = true.
C24_ErrorResponseShape ==
  \A r \in {resp, authOut.resp, rateResp} : r # NoResp => ResponseShape(r)

\* withRateLimit denied the 11th request of a client
C24_Witness ==
  /\ rateResp.status = 429
  /\ requestCounts[lastRate.id].count = DefaultMaxRequests + 1

\* other values a configured credential may have
CredentialValues == {"key", "key2"}

\* the environments that differ from env at most in the values of the
\* secrets that are configured
EnvVariants ==
  [CANVA_JWT_SECRET : IF env.CANVA_JWT_SECRET = "" THEN {""} ELSE Secrets,
   V0_API_KEY : IF env.V0_API_KEY = "" THEN {""} ELSE CredentialValues,
   VERCEL_API_KEY : IF env.VERCEL_API_KEY = "" THEN {""} ELSE CredentialValues,
   VERCEL_ACCESS_TOKEN :
     IF env.VERCEL_ACCESS_TOKEN = "" THEN {""} ELSE CredentialValues]

\* what the handler of req does before its await when the process
\* environment is e
HandlerBeforeAwait(e) ==
  IF req.endpoint = "router" THEN generateHandler(req.body, e.V0_API_KEY)
  ELSE IF req.endpoint = "deploy"
  THEN deployHandler(req.body, e.VERCEL_ACCESS_TOKEN)
  ELSE LET auth == withAuth(req.auth, e.CANVA_JWT_SECRET)
       IN  IF ~auth.invoked THEN Answer(auth.resp)
           ELSE IF req.method # "POST"
           THEN Answer(ErrorResp(405, "Method not allowed. Use POST."))
           ELSE generateHandler(req.body, e.VERCEL_API_KEY)

\* the bearer tokens of the requests at hand verify under the signing secret
\* of e exactly when they verify under that of env
SameVerification(e) ==
  \A t \in {authReq.header.token}
           \cup (IF req.endpoint = "pages" THEN {req.auth.header.token} ELSE {}) :
    (t.signedWith = e.CANVA_JWT_SECRET) <=> (t.signedWith = env.CANVA_JWT_SECRET)

\* the messages that report a missing secret
ConfigurationMessages ==
  {"Server configuration error",
   "Server configuration error: Missing API key",
   "Server configuration error: Missing deployment token"}

\* a response sent before any await is the one of HandlerBeforeAwait, and a
\* response to a request that needed a missing secret is a configuration
\* message
ReportsMissingSecret ==
  /\ (pc = "responded" /\ outcome = NoOutcome)
       => resp = HandlerBeforeAwait(env).resp
  /\ (AuthHandled /\ BearerHeader /\ env.CANVA_JWT_SECRET = "")
       => authOut.resp.error.v \in ConfigurationMessages
  /\ (pc = "responded" /\ resp.status = 500 /\ outcome = NoOutcome)
       => resp.error.v \in ConfigurationMessages

\* C25 as stated: with the same request, another value of any configured
\* secret gives the same response.
C25_ResponseIndependentOfSecrets ==
  /\ ReportsMissingSecret
  /\ \A e \in EnvVariants :
       /\ req.endpoint # "none" => HandlerBeforeAwait(e) = HandlerBeforeAwait(env)
       /\ AuthHandled => withAuth(authReq, e.CANVA_JWT_SECRET) = authOut

\* C25: with the same request, another value of a configured secret under
\* which the bearer token verifies exactly when it did before gives the same
\* response; the API key and the deployment token never influence a
\* response, and a missing secret is reported by a configuration message.
C25_SecretsOnlyDecideVerification ==
  /\ ReportsMissingSecret
  /\ \A e \in EnvVariants :
       SameVerification(e)
         => /\ req.endpoint # "none"
                 => HandlerBeforeAwait(e) = HandlerBeforeAwait(env)
            /\ AuthHandled => withAuth(authReq, e.CANVA_JWT_SECRET) = authOut

\* a generate request was answered 400 by a server whose API key is set
C25_Witness ==
  /\ pc = "responded" /\ req.endpoint = "router"
  /\ env.V0_API_KEY # ""
  /\ resp.status = 400
  /\ req.body.isObject /\ ~req.body.imageDataURL.truthy

\* str.includes(sub) for two strings
Contains(str, sub) ==
  \E i \in 1..(Len(str) - Len(sub) + 1) : SubSeq(str, i, i + Len(sub) - 1) = sub

\* C26: when the generation call fails with a failure that is neither an
\* authentication failure nor a quota signal, the error reported to the
\* caller carries the message of the failure.
C26_GenerationFailedCarriesMessage ==
  (/\ pc = "responded" /\ IsGenerate
   /\ outcome.kind = "failure"
   /\ outcome.failure.kind = "other"
   /\ outcome.failure.words = {})
    => /\ resp.status = 500
       /\ Contains(resp.error.v, message(outcome.failure))

\* C27: a request causes at most one call to the generation service or to
\* the hosting platform.
C27_AtMostOneExternalCall == extCalls <= 1

\* C30: a successful response of a generate endpoint carries a non-empty
\* code.
C30_SuccessCodeNonEmpty ==
  (IsGenerate /\ resp.success) => resp.code.has /\ resp.code.v # <<>>

\* C28: the output of filterThinkingTags contains no opening and no closing
\* thinking tag; <thinking>x x</thinking>x gives x.
C28_NoThinkingTagsLeft ==
  sanPc # "input" =>
    /\ "O" \notin Range(cleaned)
    /\ "C" \notin Range(cleaned)
    /\ text = <<"O", "x", "s", "x", "C", "x">> => cleaned = <<"x">>

\* the lexemes of t that are not whitespace
NonWs(t) == SelectSeq(t, LAMBDA k : k \notin Whitespace)

\* the lines of t
LinesOf(t) ==
  {SubSeq(t, i, j - 1) :
     <<i, j>> \in {<<a, b>> \in (1..(Len(t) + 1)) \X (1..(Len(t) + 1)) :
                     /\ a <= b
                     /\ AtLineStart(t, a)
                     /\ (b = Len(t) + 1 \/ t[b] = "n")
                     /\ \A k \in a..(b - 1) : t[k] # "n"}}

\* a line that is only a fence delimiter: backticks, optionally followed by
\* a language tag
IsDelimiterLine(line) ==
  LET w == NonWs(line)
  IN  /\ w # <<>> /\ w[1] = "F"
      /\ \A i \in DOMAIN line : line[i] \in {"F"} \cup Letters \cup Whitespace
      /\ \A i, j \in DOMAIN line :
           (i < j /\ line[j] = "F") => line[i] \in {"F"} \cup Whitespace
      /\ \A i, j, k \in DOMAIN line :
           (i < j /\ j < k /\ line[j] \in Whitespace) =>
             ~(line[i] \notin Whitespace /\ line[k] \notin Whitespace)

\* a line that opens or closes a fenced block: backticks followed by an info
\* string without backticks
IsFenceLine(line) ==
  LET w == NonWs(line)
  IN  /\ w # <<>> /\ w[1] = "F"
      /\ \A i, j \in DOMAIN w : (i < j /\ w[j] = "F") => w[i] = "F"

\* the non-whitespace text of the lines of t that are not fence lines
RECURSIVE KeptText(_)
KeptText(t) ==
  IF t = <<>> THEN <<>>
  ELSE LET e == IF IndexOf(t, "n", 1) = 0 THEN Len(t) + 1 ELSE IndexOf(t, "n", 1)
           line == SubSeq(t, 1, e - 1)
           rest == SubSeq(t, e + 1, Len(t))
       IN  (IF IsFenceLine(line) THEN <<>> ELSE NonWs(line)) \o KeptText(rest)

\* C29: the output of filterThinkingTags has no line that is only a fence
\* delimiter and no leading or trailing whitespace, and it keeps the
\* non-whitespace text of every line that is not a fence line; a fenced
\* block around the line x gives x.
C29_FencesDroppedTextKept ==
  sanPc # "input" =>
    /\ \A line \in LinesOf(cleaned) : ~IsDelimiterLine(line)
    /\ cleaned # <<>> =>
         cleaned[1] \notin Whitespace /\ cleaned[Len(cleaned)] \notin Whitespace
    /\ ("O" \notin Range(text) /\ "C" \notin Range(text))
         => NonWs(cleaned) = KeptText(text)
    /\ text = <<"F", "x", "n", "x", "n", "F">> => cleaned = <<"x">>

\* C31: the prompt text sent to the generation service is the caller's
\* instructions, a blank line and the base instructions when the caller
\* supplied non-empty instructions, and exactly the base instructions
\* otherwise; the base instructions are its suffix, and the text and the
\* image are the content of one user message.
C31_PromptComposition ==
  sent.kind = "generateText" =>
    LET p == req.body.prompt
        base == defaultPrompt(req.endpoint)
        supplied == p.k = "string" /\ p.v # ""
        content == sent.messages[1].content
        prompt == content[1].text
    IN  /\ Len(sent.messages) = 1
        /\ sent.messages[1].role = "user"
        /\ Len(content) = 2
        /\ content[1].type = "text"
        /\ content[2].type = "image"
        /\ content[2].image = req.body.imageDataURL.v
        /\ supplied => prompt = p.v \o "\n\n" \o base
        /\ ~supplied => prompt = base
        /\ Len(prompt) >= Len(base)
        /\ SubSeq(prompt, Len(prompt) - Len(base) + 1, Len(prompt)) = base

\* a generation call was made for a request with instructions
C31_Witness ==
  /\ sent.kind = "generateText"
  /\ req.body.prompt = Str("make it blue")

\* C32: the body-size limit of each generate endpoint is larger than the
\* longest imageDataURL the validator accepts, so no request whose image
\* (prefix, one marker, payload) passes the size validation is refused by the
\* body parser.
C32_BodyLimitAboveImageCap ==
  LET u == req.body.imageDataURL.v
  IN  (/\ IsGenerate
       /\ req.body.isObject
       /\ req.body.imageDataURL.k = "string"
       /\ validateImageDataURL(u).isValid
       /\ Len(u) \in {2, 3} /\ u[1].k = "P" /\ u[2].k = "M"
       /\ Len(u) = 3 => u[3].k = "D")
      => /\ pc # "refused"
         /\ PiecesLength(u) < bodySizeLimit(req.endpoint)

\* the project name the deploy handler generates for the request at time t
GeneratedName(t) ==
  "forge-preview-" \o SubSeq(req.userId, 1, 8) \o "-" \o Base36(t)

\* the defaults of componentName and framework, and the generated project
\* name, which differs from the one the same request gets at any other time
DefaultsApplied ==
  LET b == req.body
      name == sent.payload.name
  IN  /\ sent.payload =
           deploymentPayload(b.code.v,
             IF b.componentName.k = "undefined" THEN "GeneratedComponent"
             ELSE formattedComponentName(b),
             name,
             IF b.framework.k = "undefined" THEN "next"
             ELSE formattedFramework(b))
      /\ b.projectName.k = "undefined" =>
           /\ name = GeneratedName(req.now)
           /\ \A t \in 0..MaxNow :
                t # req.now => formattedProjectName(b, req.userId, t) # name

\* C33 as stated: an omitted componentName defaults to 'GeneratedComponent',
\* an omitted framework to 'next', an omitted projectName is replaced by
\* 'forge-preview-' + the first 8 characters of the user id + a time-based
\* suffix, and a supplied projectName is used unchanged.
C33_SuppliedProjectNameUnchanged ==
  sent.kind = "fetch" =>
    /\ DefaultsApplied
    /\ req.body.projectName.k = "string" =>
         sent.payload.name = req.body.projectName.v

\* C33, amended: as above, but a supplied projectName is used unchanged only
\* when it is a non-empty string; the empty string is replaced by a
\* generated name like an omitted one.
C33_DeployDefaults ==
  sent.kind = "fetch" =>
    /\ DefaultsApplied
    /\ (req.body.projectName.k = "string" /\ req.body.projectName.v # "") =>
         sent.payload.name = req.body.projectName.v
    /\ req.body.projectName = Str("") =>
         sent.payload.name = GeneratedName(req.now)

\* a deployment was requested without componentName, projectName and
\* framework
C33_Witness ==
  /\ sent.kind = "fetch"
  /\ req.body.componentName.k = "undefined"
  /\ req.body.projectName.k = "undefined"
  /\ req.body.framework.k = "undefined"

\* C34: in the streaming ExportDesign, a run of handleExportAndGenerate
\* whose export succeeded and whose code stream ended successfully has
\* called onCodeGenerated exactly once, with the code accumulated from that
\* run's stream.
C34_ParentNotifiedOnce ==
  ui.version = "streaming" =>
    \A i \in DOMAIN exportRuns :
      (exportRuns[i].pc = "done" /\ exportRuns[i].ended = "ok")
        => exportRuns[i].notified = <<exportRuns[i].acc>>

\* the bytes of a sequence of chunks, in arrival order
RECURSIVE Concat(_)
Concat(chunks) ==
  IF chunks = <<>> THEN <<>> ELSE Head(chunks) \o Concat(Tail(chunks))

\* the bytes are complete characters
ValidUtf8(b) ==
  \A k \in DOMAIN b :
    /\ b[k] = "L" => (k < Len(b) /\ b[k + 1] = "T")
    /\ b[k] = "T" => (k > 1 /\ b[k - 1] = "L")

\* the text that complete characters encode
Utf8Text(b) ==
  SelectSeq([k \in DOMAIN b |-> IF b[k] = "T" THEN "e" ELSE b[k]],
            LAMBDA c : c # "L")

C40_DeploymentMatchesCode ==
  (/\ pageCode # <<>>
   /\ display.deployState.status = "deployed"
   /\ display.deployState.deploymentUrl # NoUrl)
    => display.deployState.deploymentUrl = UrlOf(pageCode)

\* C36: a request denied by withRateLimit leaves the reset time of its key
\* unchanged, and a request of a key that arrives after the reset time is
\* handed to the handler, however far over the limit the key was.
C36_DenialKeepsResetTime ==
  [][\A id \in ClientIds :
       (requestCounts'[id] # requestCounts[id]) =>
         /\ (lastRate'.status = 429) =>
              requestCounts'[id].resetTime = requestCounts[id].resetTime
         /\ (requestCounts[id].has /\ clock > requestCounts[id].resetTime) =>
              (lastRate'.id = id /\ lastRate'.handled)]_vars

\* a key was denied and the clock is now past its reset time
C36_Witness ==
  /\ lastRate.status = 429
  /\ requestCounts[lastRate.id].count > limit.maxRequests
  /\ clock > requestCounts[lastRate.id].resetTime

\* C37: the request that opens a window of a key (no entry stored, or the
\* previous window elapsed) is handed to the handler without being compared
\* against maxRequests, so every key with an entry had at least one request
\* handled in its window, for every maxRequests, 0 included.
C37_FirstRequestAlwaysAdmitted ==
  /\ \A id \in ClientIds : requestCounts[id].has => passed[id] >= 1
  /\ (lastRate.id # "" /\ requestCounts[lastRate.id].count = 1) =>
       (lastRate.handled /\ lastRate.status = 200 /\ rateResp = NoResp)

\* with maxRequests = 0 a request was handed to the handler
C37_Witness ==
  /\ limit.maxRequests = 0
  /\ lastRate.handled
  /\ passed[lastRate.id] = 1

====
